---------------------------- MODULE Spec2Model ----------------------------
(***************************************************************************)
(* Model of the shard-routing engine of gnbutils (package sharding).       *)
(*                                                                         *)
(* Go integers keep their width.  TLC's own integers are 32 bit, so a Go   *)
(* 64-bit integer (int, int64, uint, uint64 on a 64-bit build) is a Word:  *)
(* a tuple of four 16-bit limbs, least significant first, read as two's    *)
(* complement when the Go type is signed.  A Go string is the sequence of  *)
(* its Unicode code points (the order of two strings under Go's bytewise   *)
(* comparison of UTF-8 is the lexicographic order of their code points).   *)
(***************************************************************************)
EXTENDS Integers, Sequences, FiniteSets, TLC

VARIABLES
    sc,       \* the ShardCalculator under test (Null before NewShardCalculator)
    op,       \* the operation that ran last ("none" before any)
    args,     \* the arguments it was called with
    ret,      \* what it returned
    config,       \* ShardingManager.config (Null: the nil pointer)
    databases,    \* ShardingManager.databases: connections, 0 for a nil entry
    initialized,  \* ShardingManager.initialized
    opened,       \* every connection gorm.Open has returned, in order; a
                  \* connection is known by its position in this list
    closed,       \* the connections that have been closed
    lock,         \* ShardingManager.databasesLock: its writer (0 for none)
                  \* and its readers
    pc,           \* for each caller thread, the line of manager.go it is
                  \* about to run ("idle" between calls)
    local,        \* for each caller thread, its call: the operation, the
                  \* arguments, the local variables, the result
    calls         \* the number of calls the threads have started

vars == <<sc, op, args, ret, config, databases, initialized, opened, closed, lock, pc, local, calls>>

\* The caller threads and the lock they meet at.
thVars == <<lock, pc, local, calls>>

\* The fields of the global ShardingManager and the connections around it.
smVars == <<config, databases, initialized, opened, closed>>

Null == [t |-> "null"]

---------------------------------------------------------------------------
(* 64-bit machine arithmetic on Words *)

Limb == 2^16

Zero == <<0, 0, 0, 0>>

\* The Word of a natural number below 2^31.
FromNat(k) == <<k % Limb, k \div Limb, 0, 0>>

WAdd(a, b) ==
    LET s1 == a[1] + b[1]
        s2 == a[2] + b[2] + (s1 \div Limb)
        s3 == a[3] + b[3] + (s2 \div Limb)
        s4 == a[4] + b[4] + (s3 \div Limb)
    IN  <<s1 % Limb, s2 % Limb, s3 % Limb, s4 % Limb>>

WNot(a) == <<Limb - 1 - a[1], Limb - 1 - a[2], Limb - 1 - a[3], Limb - 1 - a[4]>>

\* Two's complement negation (-x wraps for the minimum int64, as in Go).
WNeg(a) == WAdd(WNot(a), FromNat(1))

WSub(a, b) == WAdd(a, WNeg(b))

\* The Word of an integer of TLC's own range, sign extended.
FromInt(k) == IF k >= 0 THEN FromNat(k) ELSE WNeg(FromNat(-k))

\* Unsigned comparison a < b.
WLess(a, b) ==
    IF a[4] # b[4] THEN a[4] < b[4]
    ELSE IF a[3] # b[3] THEN a[3] < b[3]
    ELSE IF a[2] # b[2] THEN a[2] < b[2]
    ELSE a[1] < b[1]

\* The sign bit of a Word read as int64.
WIsNeg(a) == a[4] >= 2^15

\* One step of shift and subtract: (2r + bit) mod n for r < n < 2^63.
URemStep(r, bit, n) ==
    LET r2 == WAdd(WAdd(r, r), FromNat(bit))
    IN  IF WLess(r2, n) THEN r2 ELSE WSub(r2, n)

\* Unsigned remainder a mod n for 0 < n < 2^63, by shift and subtract, one
\* limb of the dividend (16 bits, most significant first) at a time; the
\* remainder so far, r, stays below n.  A zero limb met while r is zero
\* leaves r zero and is passed over.
RECURSIVE URemBits(_, _, _, _)
URemBits(r, limb, n, i) ==
    IF i >= 0 /\ (r # Zero \/ limb # 0) /\ WLess(r, n)
    THEN URemBits(URemStep(r, (limb \div (2^i)) % 2, n), limb, n, i - 1)
    ELSE r

URem(a, n) ==
    URemBits(URemBits(URemBits(URemBits(Zero, a[4], n, 15), a[3], n, 15),
                      a[2], n, 15), a[1], n, 15)

\* Go's % on int64 with a positive divisor: the remainder truncates toward
\* zero and has the sign of the dividend.
WithSign(negative, magnitude) == IF negative THEN WNeg(magnitude) ELSE magnitude

SRem(a, n) == WithSign(WIsNeg(a), URem(IF WIsNeg(a) THEN WNeg(a) ELSE a, n))

\* Unsigned division of a Word by a small d (0 < d < 2^15):
\* <<quotient, remainder>>.
UDivSmall(a, d) ==
    LET t4 == a[4]
        t3 == (t4 % d) * Limb + a[3]
        t2 == (t3 % d) * Limb + a[2]
        t1 == (t2 % d) * Limb + a[1]
    IN  <<(<<t1 \div d, t2 \div d, t3 \div d, t4 \div d>>), t1 % d>>

\* a * m + c for small m and c: <<low 64 bits, carry out of bit 63>>.
UMulAddSmall(a, m, c) ==
    LET p1 == a[1] * m + c
        p2 == a[2] * m + (p1 \div Limb)
        p3 == a[3] * m + (p2 \div Limb)
        p4 == a[4] * m + (p3 \div Limb)
    IN  <<(<<p1 % Limb, p2 % Limb, p3 % Limb, p4 % Limb>>), p4 \div Limb>>

\* Go's conversion int32(x) of a 64-bit x: the low 32 bits, two's complement.
ToInt32(a) ==
    IF a[2] >= 2^15 THEN (a[2] - Limb) * Limb + a[1] ELSE a[2] * Limb + a[1]

---------------------------------------------------------------------------
(* Strings, fmt.Sprintf("%v", x), strings.Join, strconv.ParseInt *)

Front(s) == SubSeq(s, 1, Len(s) - 1)

\* Go's s < t on strings.
RECURSIVE StrLess(_, _)
StrLess(s, t) ==
    IF t = <<>> THEN FALSE
    ELSE IF s = <<>> THEN TRUE
    ELSE IF s[1] # t[1] THEN s[1] < t[1]
    ELSE StrLess(Tail(s), Tail(t))

\* Decimal digits of an unsigned Word, most significant first ("" for 0):
\* st is <<what is left of the number, the digits produced so far>>.
RECURSIVE UDigits(_)
UDigits(st) ==
    IF st[1] = Zero THEN st[2]
    ELSE UDigits(LET qr == UDivSmall(st[1], 10) IN <<qr[1], <<48 + qr[2]>> \o st[2]>>)

FormatUint(a) == IF a = Zero THEN <<48>> ELSE UDigits(<<a, <<>> >>)

FormatInt(a) == IF WIsNeg(a) THEN <<45>> \o FormatUint(WNeg(a)) ELSE FormatUint(a)

SignedTypes == {"int", "int8", "int16", "int32", "int64"}

UnsignedTypes == {"uint", "uint8", "uint16", "uint32", "uint64"}

IntegerTypes == SignedTypes \cup UnsignedTypes

\* strings.Join(elems, sep)
RECURSIVE Join(_, _)
Join(elems, sep) ==
    IF elems = <<>> THEN <<>>
    ELSE IF Len(elems) = 1 THEN elems[1]
    ELSE Join(Front(elems), sep) \o sep \o elems[Len(elems)]

\* The keys of a map in ascending order (fmt prints a map sorted by key).
RECURSIVE KeysAscending(_)
KeysAscending(K) ==
    IF K = {} THEN <<>>
    ELSE LET least == CHOOSE k \in K : \A o \in K : ~StrLess(o, k)
         IN  <<least>> \o KeysAscending(K \ {least})

\* fmt.Sprintf("%v", v) of a scalar: a decimal integer, the string itself,
\* true or false, <nil>.
FormatScalar(v) ==
    CASE v.t \in SignedTypes -> FormatInt(v.w)
      [] v.t \in UnsignedTypes -> FormatUint(v.w)
      [] v.t = "string" -> v.s
      [] v.t = "bool" -> IF v.b THEN <<116, 114, 117, 101>> ELSE <<102, 97, 108, 115, 101>>
      [] v.t = "nil" -> <<60, 110, 105, 108, 62>>

\* fmt.Sprintf("%v", v): a slice prints as [e1 e2], a map as map[k1:v1 k2:v2]
\* with its keys in ascending order.
FormatV(v) ==
    CASE v.t = "[]string" -> <<91>> \o Join(v.elems, <<32>>) \o <<93>>
      [] v.t = "[]interface {}" ->
            <<91>> \o Join([i \in 1..Len(v.elems) |-> FormatScalar(v.elems[i])], <<32>>) \o <<93>>
      [] v.t = "map[string]interface {}" ->
            LET ks == KeysAscending(DOMAIN v.m)
            IN  <<109, 97, 112, 91>>
                \o Join([i \in 1..Len(ks) |-> ks[i] \o <<58>> \o FormatScalar(v.m[ks[i]])], <<32>>)
                \o <<93>>
      [] OTHER -> FormatScalar(v)

\* strconv.ParseUint(s, 10, 64) on a non-empty s: every character must be a
\* decimal digit (ErrSyntax) and the value must stay below 2^64 (ErrRange).
ParseDigit(n, c) ==
    IF c < 48 \/ c > 57 THEN [n |-> Zero, err |-> "ErrSyntax"]
    ELSE LET p == UMulAddSmall(n, 10, c - 48)
         IN  IF p[2] # 0 THEN [n |-> Zero, err |-> "ErrRange"]
             ELSE [n |-> p[1], err |-> "nil"]

RECURSIVE ParseUintFrom(_, _, _)
ParseUintFrom(s, i, acc) ==
    IF i <= Len(s) /\ acc.err = "nil"
    THEN ParseUintFrom(s, i + 1, ParseDigit(acc.n, s[i]))
    ELSE acc

ParseUint(s) == ParseUintFrom(s, 1, [n |-> Zero, err |-> "nil"])

MinInt64 == <<0, 0, 0, 2^15>>

MaxInt64 == <<Limb - 1, Limb - 1, Limb - 1, 2^15 - 1>>

\* strconv.ParseInt(s, 10, 64): an optional sign, then ParseUint; the value
\* must fit int64.
ParseSigned(neg, rest, un) ==
    IF rest = <<>> THEN [n |-> Zero, err |-> "ErrSyntax"]
    ELSE IF un.err # "nil" THEN un
    ELSE IF ~neg /\ ~WLess(un.n, MinInt64) THEN [n |-> Zero, err |-> "ErrRange"]
    ELSE IF neg /\ WLess(MinInt64, un.n) THEN [n |-> Zero, err |-> "ErrRange"]
    ELSE [n |-> IF neg THEN WNeg(un.n) ELSE un.n, err |-> "nil"]

ParseRest(neg, rest) == ParseSigned(neg, rest, ParseUint(rest))

ParseInt(s) ==
    IF s = <<>> THEN [n |-> Zero, err |-> "ErrSyntax"]
    ELSE ParseRest(s[1] = 45, IF s[1] \in {43, 45} THEN Tail(s) ELSE s)

---------------------------------------------------------------------------
(* algorithms.go: the three sharding algorithms *)

AlgorithmTypeLong == "long"

AlgorithmTypeString == "string"

AlgorithmTypeMultiString == "multi_string"

\* error values: nil is the empty sequence, a wrapped error is its context
\* followed by its cause.
ErrNil == <<>>

ErrCannotConvert == <<"cannot convert string to int64">>

ErrUnsupportedType == <<"unsupported type for LongShardingAlgorithm">>

ErrEmptyColumnValues == <<"empty column values for multi-string sharding">>

ErrUnknownAlgorithm == <<"unknown sharding algorithm type">>

\* The run-time panic of an integer division by zero.
PanicDivideByZero == <<"panic: runtime error: integer divide by zero">>

\* The Go types LongShardingAlgorithm's type switch converts with int64(v).
LongCases == {"int", "int32", "int64", "uint", "uint32", "uint64"}

\* LongModulo with the Euclidean (never negative) remainder in place of the
\* absolute value of Go's truncated remainder.
LongModuloEuclidean(id, shardCount) ==
    LET r == URem(IF WIsNeg(id) THEN WNeg(id) ELSE id, shardCount)
    IN  IF WIsNeg(id) /\ r # Zero THEN WSub(shardCount, r) ELSE r

\* tableIndex := int(id % int64(shardCount)); if tableIndex < 0 { tableIndex = -tableIndex }
NegateIfNegative(tableIndex) ==
    IF WIsNeg(tableIndex) THEN WNeg(tableIndex) ELSE tableIndex

LongModulo(id, shardCount) ==
    NegateIfNegative(SRem(id, IF WIsNeg(shardCount) THEN WNeg(shardCount) ELSE shardCount))

\* The type switch of LongShardingAlgorithm.CalculateShardIndex: the int64 id
\* of the value, or the error returned.
\* case string: the id strconv.ParseInt gave, or the conversion error.
LongIdOfString(parsed) ==
    IF parsed.err # "nil" THEN [id |-> Zero, err |-> ErrCannotConvert]
    ELSE [id |-> parsed.n, err |-> ErrNil]

LongId(shardingValue) ==
    CASE shardingValue.t \in LongCases -> [id |-> shardingValue.w, err |-> ErrNil]
      [] shardingValue.t = "string" -> LongIdOfString(ParseInt(shardingValue.s))
      [] OTHER -> [id |-> Zero, err |-> ErrUnsupportedType]

\* What follows the type switch: the error of the switch, or the modulo.
LongIndexOf(conv, shardCount) ==
    IF conv.err # ErrNil THEN [idx |-> Zero, err |-> conv.err]
    ELSE IF shardCount = Zero THEN [idx |-> Zero, err |-> PanicDivideByZero]
    ELSE [idx |-> LongModulo(conv.id, shardCount), err |-> ErrNil]

LongCalculateShardIndex(shardingValue, shardCount) ==
    LongIndexOf(LongId(shardingValue), shardCount)

\* hash*31 + c in int32 arithmetic (the sum wraps modulo 2^32).
HashStep(hash, c) ==
    LET lo == (hash % Limb) * 31 + (c % Limb)
        hi == ((hash \div Limb) % Limb) * 31 + (c \div Limb) + (lo \div Limb)
    IN  ToInt32(<<lo % Limb, hi % Limb, 0, 0>>)

\* The loop of stringHashCode from the i-th rune on, hash being the value so
\* far.  (Testing hash \in Int makes TLC evaluate each step before the next.)
RECURSIVE HashFrom(_, _, _)
HashFrom(s, i, hash) ==
    IF i <= Len(s) /\ hash \in Int THEN HashFrom(s, i + 1, HashStep(hash, s[i])) ELSE hash

\* stringHashCode: hash = hash*31 + c over the runes of s in order, from 0.
stringHashCode(s) == HashFrom(s, 1, 0)

\* hashCode & 0x7FFFFFFF
MaskSign(hashCode) == IF hashCode >= 0 THEN hashCode ELSE (hashCode + 2^30) + 2^30

\* int((hashCode & 0x7FFFFFFF) % int32(shardCount)): the divisor is the low
\* 32 bits of shardCount; Go's % truncates, so a non-negative dividend is
\* reduced modulo the divisor's magnitude, and a zero divisor panics.
HashModulo(hashCode, shardCount) ==
    LET divisor == ToInt32(shardCount)
        dividend == MaskSign(hashCode)
    IN  IF divisor = 0 THEN [idx |-> Zero, err |-> PanicDivideByZero]
        ELSE IF divisor = -(2^30) - 2^30 THEN [idx |-> FromNat(dividend), err |-> ErrNil]
        ELSE IF divisor < 0 THEN [idx |-> FromNat(dividend % (-divisor)), err |-> ErrNil]
        ELSE [idx |-> FromNat(dividend % divisor), err |-> ErrNil]

StringCalculateShardIndex(shardingValue, shardCount) ==
    LET column == IF shardingValue.t = "string" THEN shardingValue.s
                  ELSE FormatV(shardingValue)
    IN  HashModulo(stringHashCode(column), shardCount)

Swap(keys, i, j) == [keys EXCEPT ![i] = keys[j], ![j] = keys[i]]

\* The exchange sort of the map branch: for i, for j > i, swap when
\* keys[i] > keys[j].
RECURSIVE SortKeysFrom(_, _, _)
SortKeysFrom(keys, i, j) ==
    IF i > Len(keys) - 1 THEN keys
    ELSE IF j > Len(keys) THEN SortKeysFrom(keys, i + 1, i + 2)
    ELSE IF StrLess(keys[j], keys[i]) THEN SortKeysFrom(Swap(keys, i, j), i, j + 1)
    ELSE SortKeysFrom(keys, i, j + 1)

\* SortKeys with the sort left out: the keys stay in iteration order.
SortKeysSkipped(keys) == keys

SortKeys(keys) == SortKeysFrom(keys, 1, 2)

\* The type switch of MultiStringShardingAlgorithm.CalculateShardIndex.
\* `order` is the order in which `for k := range v` yields the keys of a map
\* (any order: Go leaves it unspecified); it is read for a map only.
ColumnValues(shardingValue, order) ==
    CASE shardingValue.t = "[]string" -> shardingValue.elems
      [] shardingValue.t = "[]interface {}" ->
            [i \in 1..Len(shardingValue.elems) |-> FormatScalar(shardingValue.elems[i])]
      [] shardingValue.t = "map[string]interface {}" ->
            LET keys == SortKeys(order)
            IN  [i \in 1..Len(keys) |-> FormatScalar(shardingValue.m[keys[i]])]
      [] OTHER -> <<FormatV(shardingValue)>>

\* Separator as "-" instead of "_".
SeparatorDash == <<45>>

Separator == <<95>>

\* MultiStringCalculateShardIndex without the check for an empty value list.
MultiStringUnchecked(shardingValue, shardCount, order) ==
    HashModulo(stringHashCode(Join(ColumnValues(shardingValue, order), <<95>>)), shardCount)

\* What follows the type switch: the check for no value, the join, the hash.
MultiStringIndexOf(columnValues, shardCount) ==
    IF Len(columnValues) = 0 THEN [idx |-> Zero, err |-> ErrEmptyColumnValues]
    ELSE HashModulo(stringHashCode(Join(columnValues, Separator)), shardCount)

MultiStringCalculateShardIndex(shardingValue, shardCount, order) ==
    MultiStringIndexOf(ColumnValues(shardingValue, order), shardCount)

\* GetShardingAlgorithm falling back to the Long algorithm for an unknown name.
GetShardingAlgorithmLenient(algorithmType) ==
    CASE algorithmType = "string" -> [alg |-> "StringShardingAlgorithm", err |-> <<>>]
      [] algorithmType = "multi_string" -> [alg |-> "MultiStringShardingAlgorithm", err |-> <<>>]
      [] OTHER -> [alg |-> "LongShardingAlgorithm", err |-> <<>>]

\* GetShardingAlgorithm: the algorithm of a type name (no algorithm, and an
\* error, for any other name).
GetShardingAlgorithm(algorithmType) ==
    CASE algorithmType = AlgorithmTypeLong -> [alg |-> "LongShardingAlgorithm", err |-> ErrNil]
      [] algorithmType = AlgorithmTypeString -> [alg |-> "StringShardingAlgorithm", err |-> ErrNil]
      [] algorithmType = AlgorithmTypeMultiString ->
            [alg |-> "MultiStringShardingAlgorithm", err |-> ErrNil]
      [] OTHER -> [alg |-> "nil", err |-> ErrUnknownAlgorithm]

\* The dynamic dispatch algorithm.CalculateShardIndex(shardingValue, shardCount).
CalculateShardIndex(alg, shardingValue, shardCount, order) ==
    CASE alg = "LongShardingAlgorithm" -> LongCalculateShardIndex(shardingValue, shardCount)
      [] alg = "StringShardingAlgorithm" -> StringCalculateShardIndex(shardingValue, shardCount)
      [] alg = "MultiStringShardingAlgorithm" ->
            MultiStringCalculateShardIndex(shardingValue, shardCount, order)

---------------------------------------------------------------------------
(* calculator.go: ShardCalculator *)

\* fmt.Errorf("<context>: %w", err)
Wrap(context, err) == <<context>> \o err

IsPanic(err) == err = PanicDivideByZero

\* NewShardCalculator: the calculator, or the error of GetShardingAlgorithm.
NewShardCalculator(algorithmType, databaseCount, tableCountPerDB) ==
    LET got == GetShardingAlgorithm(algorithmType)
    IN  IF got.err # ErrNil THEN [sc |-> Null, err |-> got.err]
        ELSE [sc |-> [algorithm |-> got.alg,
                      databaseCount |-> databaseCount,
                      tableCountPerDB |-> tableCountPerDB],
              err |-> ErrNil]

\* CalculateShard with the table index taken against databaseCount, the
\* count of the line above it.
\* What CalculateShard returns for the results db and tbl of its two
\* algorithm calls.  A panic unwinds through the function as it is; an error
\* is returned wrapped.
ShardOf(db, tbl) ==
    LET failed(err) == [dbIndex |-> Zero, tableIndex |-> Zero, tableName |-> <<>>, err |-> err]
    IN  IF IsPanic(db.err) THEN failed(db.err)
        ELSE IF db.err # ErrNil THEN failed(Wrap("failed to calculate database index", db.err))
        ELSE IF IsPanic(tbl.err) THEN failed(tbl.err)
        ELSE IF tbl.err # ErrNil THEN failed(Wrap("failed to calculate table index", tbl.err))
        ELSE [dbIndex |-> db.idx, tableIndex |-> tbl.idx, tableName |-> <<>>, err |-> ErrNil]

CalculateShardSameCount(calc, shardingValue, orderDb, orderTable) ==
    ShardOf(CalculateShardIndex(calc.algorithm, shardingValue, calc.databaseCount, orderDb),
            CalculateShardIndex(calc.algorithm, shardingValue, calc.databaseCount, orderTable))

\* ShardCalculator.CalculateShard.  orderDb and orderTable are the map
\* iteration orders of the two algorithm calls.
CalculateShard(calc, shardingValue, orderDb, orderTable) ==
    ShardOf(CalculateShardIndex(calc.algorithm, shardingValue, calc.databaseCount, orderDb),
            CalculateShardIndex(calc.algorithm, shardingValue, calc.tableCountPerDB, orderTable))

\* strings.Index(s, sub) on byte strings: the least offset at which sub
\* occurs in s, or -1.  (result[i:i+len(placeholder)] == placeholder, scanned
\* from i = 0.)
IndexOf(s, sub) ==
    LET at == {i \in 0..(Len(s) - Len(sub)) : SubSeq(s, i + 1, i + Len(sub)) = sub}
    IN  IF at = {} THEN -1 ELSE CHOOSE i \in at : \A j \in at : i <= j

\* "{db_index}"
Placeholder == <<123, 100, 98, 95, 105, 110, 100, 101, 120, 125>>

\* CalculateDatabaseName's loop with its first occurrence only replaced.
ReplaceFirstOnly(result, value) ==
    LET idx == IndexOf(result, Placeholder)
    IN  IF idx = -1 THEN result
        ELSE SubSeq(result, 1, idx) \o value
             \o SubSeq(result, idx + Len(Placeholder) + 1, Len(result))

\* The loop of CalculateDatabaseName: while the placeholder occurs in result,
\* replace its first occurrence by value.
RECURSIVE ReplaceDbIndex(_, _)
ReplaceDbIndex(result, value) ==
    LET idx == IndexOf(result, Placeholder)
    IN  IF idx = -1 THEN result
        ELSE ReplaceDbIndex(SubSeq(result, 1, idx) \o value
                            \o SubSeq(result, idx + Len(Placeholder) + 1, Len(result)),
                            value)

\* ShardCalculator.CalculateTableName: fmt.Sprintf("%s_%d", name, tableIndex)
TableNameOf(shard, originalTableName) ==
    IF shard.err # ErrNil THEN [name |-> <<>>, err |-> shard.err]
    ELSE [name |-> originalTableName \o <<95>> \o FormatInt(shard.tableIndex),
          err |-> ErrNil]

CalculateTableName(calc, originalTableName, shardingValue, orderDb, orderTable) ==
    TableNameOf(CalculateShard(calc, shardingValue, orderDb, orderTable), originalTableName)

\* ShardCalculator.CalculateDatabaseName
DatabaseNameOf(shard, databaseTemplate) ==
    IF shard.err # ErrNil THEN [name |-> <<>>, err |-> shard.err]
    ELSE [name |-> ReplaceDbIndex(databaseTemplate, FormatInt(shard.dbIndex)),
          err |-> ErrNil]

CalculateDatabaseName(calc, databaseTemplate, shardingValue, orderDb, orderTable) ==
    DatabaseNameOf(CalculateShard(calc, shardingValue, orderDb, orderTable), databaseTemplate)

\* ShardCalculator.GetShardInfo.  It runs CalculateShard three times (itself,
\* in CalculateDatabaseName, in CalculateTableName); orders holds the map
\* iteration orders of the six algorithm calls.
ShardInfoOf(shard, dbName, tableName) ==
    IF shard.err # ErrNil THEN [info |-> Null, err |-> shard.err]
    ELSE IF dbName.err # ErrNil THEN [info |-> Null, err |-> dbName.err]
    ELSE IF tableName.err # ErrNil THEN [info |-> Null, err |-> tableName.err]
    ELSE [info |-> [DatabaseIndex |-> shard.dbIndex,
                    TableIndex |-> shard.tableIndex,
                    DatabaseName |-> dbName.name,
                    TableName |-> tableName.name],
          err |-> ErrNil]

GetShardInfo(calc, originalTableName, databaseTemplate, shardingValue, orders) ==
    ShardInfoOf(CalculateShard(calc, shardingValue, orders[1], orders[2]),
                CalculateDatabaseName(calc, databaseTemplate, shardingValue, orders[3], orders[4]),
                CalculateTableName(calc, originalTableName, shardingValue, orders[5], orders[6]))

\* CalculateShardLocation: a calculator made for the call, then GetShardInfo.
ShardLocationOf(new, originalTableName, databaseTemplate, shardingValue, orders) ==
    IF new.err # ErrNil THEN [info |-> Null, err |-> new.err]
    ELSE GetShardInfo(new.sc, originalTableName, databaseTemplate, shardingValue, orders)

CalculateShardLocation(algorithmType, databaseCount, tableCountPerDB, originalTableName, databaseTemplate, shardingValue, orders) ==
    ShardLocationOf(NewShardCalculator(algorithmType, databaseCount, tableCountPerDB), originalTableName, databaseTemplate, shardingValue, orders)

---------------------------------------------------------------------------
(* manager.go: the sharding manager *)

ErrAlreadyInitialized == <<"sharding manager already initialized">>

ErrNotInitialized == <<"sharding manager not initialized">>

ErrTableConfigNotFound(tableName) ==
    <<"table config not found for table", ToString(tableName)>>

ErrInvalidDatabaseIndex(dbIndex) == <<"invalid database index", ToString(dbIndex)>>

\* The error of a gorm.Open that could not connect.
ErrOpen == <<"dial tcp: connection refused">>

\* The run-time panic of make([]*gorm.DB, n) with n < 0.
PanicMakeslice == <<"panic: runtime error: makeslice: len out of range">>

\* One pass of replacePlaceholder over result: every occurrence met from left
\* to right is replaced.  st is <<i, newResult, found>>.
RECURSIVE ReplacePass(_, _, _, _)
ReplacePass(result, placeholder, value, st) ==
    IF st[1] >= Len(result) THEN st
    ELSE ReplacePass(result, placeholder, value,
            IF /\ st[1] + Len(placeholder) <= Len(result)
               /\ SubSeq(result, st[1] + 1, st[1] + Len(placeholder)) = placeholder
            THEN <<st[1] + Len(placeholder), st[2] \o value, TRUE>>
            ELSE <<st[1] + 1, Append(st[2], result[st[1] + 1]), st[3]>>)

\* The outer loop of replacePlaceholder: passes until one finds nothing.
RECURSIVE ReplaceLoop(_, _, _)
AfterPass(result, placeholder, value, pass) ==
    IF ~pass[3] THEN result ELSE ReplaceLoop(pass[2], placeholder, value)

ReplaceLoop(result, placeholder, value) ==
    AfterPass(result, placeholder, value,
              ReplacePass(result, placeholder, value, <<0, <<>>, FALSE>>))

\* replacePlaceholder(template, key, value): {key} replaced by value
replacePlaceholder(template, key, value) ==
    ReplaceLoop(template, <<123>> \o key \o <<125>>, value)

\* The database name initDatabase connects to: "nbgame_<i>" for an empty
\* template.
InitDatabaseName(cfg, dbIndex) ==
    IF cfg.Database = <<>>
    THEN <<110, 98, 103, 97, 109, 101, 95>> \o FormatInt(FromInt(dbIndex))
    ELSE replacePlaceholder(cfg.Database, <<100, 98, 95, 105, 110, 100, 101, 120>>, FormatInt(FromInt(dbIndex)))

\* The check of one table's config in initDatabase.
ValidateTable(tableName, tableConfig) ==
    IF tableConfig.ShardingKey = <<>>
    THEN <<"sharding_key is required for table", ToString(tableName)>>
    ELSE IF tableConfig.TableCount <= 0
    THEN <<"table_count must be greater than 0 for table", ToString(tableName)>>
    ELSE IF tableConfig.Algorithm = "nil"
    THEN <<"algorithm is required for table", ToString(tableName)>>
    ELSE ErrNil

\* The validation loop of initDatabase over the tables in the order the map
\* yields them: the error of the first table that fails.
ValidateTables(cfg, order) ==
    LET bad == {i \in DOMAIN order : ValidateTable(order[i], cfg.TableConfigs[order[i]]) # ErrNil}
    IN  IF bad = {} THEN ErrNil
        ELSE LET first == CHOOSE i \in bad : \A j \in bad : i <= j
             IN  ValidateTable(order[first], cfg.TableConfigs[order[first]])

\* initDatabase with a gorm.Open that never fails.
initDatabaseAlwaysOpens(cfg, dbIndex, openOk, order) ==
    LET conn == [dbIndex |-> dbIndex, dbName |-> InitDatabaseName(cfg, dbIndex)]
    IN  [conn |-> conn, db |-> conn, err |-> ErrNil]

\* initDatabase(dbIndex): the connection is opened first (openOk: whether
\* gorm.Open succeeds), the tables are validated after.  conn is the
\* connection gorm.Open returned (Null when it failed), db what initDatabase
\* returns.
Opened(dbIndex, openOk, conn, invalid) ==
    IF ~openOk
    THEN [conn |-> Null, db |-> Null,
          err |-> <<"failed to connect database", ToString(dbIndex)>> \o ErrOpen]
    ELSE IF invalid # ErrNil THEN [conn |-> conn, db |-> Null, err |-> invalid]
    ELSE [conn |-> conn, db |-> conn, err |-> ErrNil]

initDatabase(cfg, dbIndex, openOk, order) ==
    Opened(dbIndex, openOk,
           [dbIndex |-> dbIndex, dbName |-> InitDatabaseName(cfg, dbIndex)],
           ValidateTables(cfg, order))

\* The loop of Init from index st.i on.  failAt is the first index whose
\* gorm.Open fails (DatabaseCount when none does).
RECURSIVE InitLoop(_, _, _, _)
\* One turn of the loop of Init: got is what initDatabase returned, nowOpened
\* the connections opened so far.
InitTurn(cfg, failAt, order, st, got, nowOpened) ==
    IF got.err # ErrNil
    THEN [st EXCEPT !.opened = nowOpened,
                    !.err = <<"failed to init database", ToString(st.i)>> \o got.err]
    ELSE InitLoop(cfg, failAt, order,
                  [st EXCEPT !.i = st.i + 1,
                             !.opened = nowOpened,
                             !.databases[st.i + 1] = Len(nowOpened)])

InitGot(cfg, failAt, order, st, got) ==
    InitTurn(cfg, failAt, order, st, got,
             IF got.conn = Null THEN st.opened ELSE Append(st.opened, got.conn))

InitLoop(cfg, failAt, order, st) ==
    IF st.i >= cfg.DatabaseCount THEN [st EXCEPT !.initialized = TRUE]
    ELSE InitGot(cfg, failAt, order, st, initDatabase(cfg, st.i, st.i # failAt, order))

\* The manager when the loop of Init ended in done.
InitDone(sm, cfg, done) ==
    [sm EXCEPT !.config = cfg, !.databases = done.databases,
               !.opened = done.opened, !.initialized = done.initialized,
               !.err = done.err]

\* An Init that opens nothing and leaves the connections for later.
ManagerInitLazy(sm, cfg, failAt, order) ==
    IF sm.initialized
    THEN [sm EXCEPT !.config = cfg, !.err = ErrAlreadyInitialized]
    ELSE [sm EXCEPT !.config = cfg,
                    !.databases = [k \in 1..cfg.DatabaseCount |-> 0],
                    !.initialized = TRUE]

\* ShardingManager.Init: the fields of the manager after the call, and the
\* error.  sm.config is assigned before the lock is taken and before the
\* initialized flag is looked at.
ManagerInit(sm, cfg, failAt, order) ==
    IF sm.initialized
    THEN [sm EXCEPT !.config = cfg, !.err = ErrAlreadyInitialized]
    ELSE IF cfg.DatabaseCount < 0
    THEN [sm EXCEPT !.config = cfg, !.err = PanicMakeslice]
    ELSE InitDone(sm, cfg, InitLoop(cfg, failAt, order,
                                    [i |-> 0,
                                     databases |-> [k \in 1..cfg.DatabaseCount |-> 0],
                                     opened |-> sm.opened,
                                     initialized |-> FALSE,
                                     err |-> ErrNil]))

\* calculateDatabaseIndex: the given algorithm (Long when there is none)
\* against the DatabaseCount of the active configuration.
calculateDatabaseIndex(sm, shardingValue, algorithm, order) ==
    CalculateShardIndex(IF algorithm = "nil" THEN "LongShardingAlgorithm" ELSE algorithm,
                        shardingValue, FromInt(sm.config.DatabaseCount), order)

\* The bound check and the read sm.databases[dbIndex] that end GetDB,
\* GetDBForTable and GetDBByIndex; dbIndex is a Go int.
DatabaseAt(sm, dbIndex) ==
    IF WIsNeg(dbIndex) \/ ~WLess(dbIndex, FromNat(Len(sm.databases)))
    THEN [db |-> 0, err |-> ErrInvalidDatabaseIndex(dbIndex)]
    ELSE [db |-> sm.databases[dbIndex[1] + 1], err |-> ErrNil]

\* What GetDB and GetDBForTable do with the result of calculateDatabaseIndex.
Routed(sm, got) ==
    IF got.err # ErrNil THEN [db |-> 0, err |-> got.err]
    ELSE DatabaseAt(sm, got.idx)

\* ShardingManager.GetDB: always the Long algorithm.
GetDB(sm, shardingValue, order) ==
    IF ~sm.initialized THEN [db |-> 0, err |-> ErrNotInitialized]
    ELSE Routed(sm, calculateDatabaseIndex(sm, shardingValue, "LongShardingAlgorithm", order))

\* GetDBForTable that routes a table it has no config for as GetDB does.
GetDBForTableFallback(sm, tableName, shardingValue, order) ==
    IF ~sm.initialized THEN [db |-> 0, err |-> ErrNotInitialized]
    ELSE IF tableName \notin DOMAIN sm.config.TableConfigs
    THEN GetDB(sm, shardingValue, order)
    ELSE GetDB(sm, shardingValue, order)

\* ShardingManager.GetDBForTable: the algorithm of the table's config.
GetDBForTable(sm, tableName, shardingValue, order) ==
    IF ~sm.initialized THEN [db |-> 0, err |-> ErrNotInitialized]
    ELSE IF \/ tableName \notin DOMAIN sm.config.TableConfigs
            \/ sm.config.TableConfigs[tableName] = Null
    THEN [db |-> 0, err |-> ErrTableConfigNotFound(tableName)]
    ELSE Routed(sm, calculateDatabaseIndex(sm, shardingValue,
                        sm.config.TableConfigs[tableName].Algorithm, order))

\* GetDBByIndex without the look at the initialized flag.
GetDBByIndexUnguarded(sm, dbIndex) == DatabaseAt(sm, dbIndex)

\* ShardingManager.GetDBByIndex
GetDBByIndex(sm, dbIndex) ==
    IF ~sm.initialized THEN [db |-> 0, err |-> ErrNotInitialized]
    ELSE DatabaseAt(sm, dbIndex)

\* ShardingManager.GetAllDBs: a copy of the list
GetAllDBs(sm) == sm.databases

\* The connections in the list of the manager.
Held(sm) == {sm.databases[i] : i \in DOMAIN sm.databases} \ {0}

\* Close that leaves the entries of the list as they are.
ManagerCloseKeepsList(sm) ==
    [sm EXCEPT !.closed = sm.closed \cup Held(sm),
               !.initialized = FALSE,
               !.err = ErrNil]

\* Close that leaves the initialized flag as it is.
ManagerCloseKeepsFlag(sm) ==
    [sm EXCEPT !.closed = sm.closed \cup Held(sm),
               !.databases = [i \in DOMAIN sm.databases |-> 0],
               !.err = ErrNil]

\* ShardingManager.Close: every entry that is not nil is closed (db.DB() of a
\* connection gorm.Open returned for the mysql driver yields its *sql.DB) and
\* set to nil; the list keeps its length.
ManagerClose(sm) ==
    [sm EXCEPT !.closed = sm.closed \cup Held(sm),
               !.databases = [i \in DOMAIN sm.databases |-> 0],
               !.initialized = FALSE,
               !.err = ErrNil]

\* CalculateShardForTable of the global manager.  The database name is the
\* template as it is unless DatabaseCount > 1.
ShardForTableOf(cfg, tableName, db, tbl) ==
    LET failed(err) == [info |-> Null, err |-> err]
    IN  IF IsPanic(db.err) THEN failed(db.err)
        ELSE IF db.err # ErrNil THEN failed(Wrap("failed to calculate database index", db.err))
        ELSE IF IsPanic(tbl.err) THEN failed(tbl.err)
        ELSE IF tbl.err # ErrNil THEN failed(Wrap("failed to calculate table index", tbl.err))
        ELSE [info |-> [DatabaseIndex |-> db.idx,
                        TableIndex |-> tbl.idx,
                        DatabaseName |-> IF cfg.DatabaseCount > 1
                                         THEN ReplaceDbIndex(cfg.Database, FormatInt(db.idx))
                                         ELSE cfg.Database,
                        TableName |-> tableName \o <<95>> \o FormatInt(tbl.idx)],
              err |-> ErrNil]

ShardForTableConfig(cfg, tableName, tableConfig, shardingValue, orderDb, orderTable) ==
    LET failed(err) == [info |-> Null, err |-> err]
    IN  IF tableConfig.Algorithm = "nil"
        THEN failed(<<"algorithm is required for table", ToString(tableName)>>)
        ELSE IF tableConfig.TableCount <= 0
        THEN failed(<<"table_count must be greater than 0 for table", ToString(tableName)>>)
        ELSE ShardForTableOf(cfg, tableName,
                 CalculateShardIndex(tableConfig.Algorithm, shardingValue,
                                     FromInt(cfg.DatabaseCount), orderDb),
                 CalculateShardIndex(tableConfig.Algorithm, shardingValue,
                                     FromInt(tableConfig.TableCount), orderTable))

CalculateShardForTable(sm, tableName, shardingValue, orderDb, orderTable) ==
    LET failed(err) == [info |-> Null, err |-> err]
    IN  IF ~sm.initialized THEN failed(ErrNotInitialized)
        ELSE IF sm.config = Null THEN failed(<<"sharding config not found">>)
        ELSE IF \/ tableName \notin DOMAIN sm.config.TableConfigs
                \/ sm.config.TableConfigs[tableName] = Null
        THEN failed(<<"table config not found for table, each table must be configured in table_configs",
                      ToString(tableName)>>)
        ELSE ShardForTableConfig(sm.config, tableName, sm.config.TableConfigs[tableName],
                                 shardingValue, orderDb, orderTable)

\* The run-time panic of a method call through a nil *gorm.DB.
PanicNilPointer == <<"panic: runtime error: invalid memory address or nil pointer dereference">>

\* &gorm.DB{}: a handle bound to no connection and no table.
EmptyDB == [db |-> 0, table |-> <<>>, err |-> ErrNil]

\* db.Table(name): a session on the connection db, scoped to the table name.
Table(db, name) ==
    IF db = 0 THEN [db |-> 0, table |-> <<>>, err |-> PanicNilPointer]
    ELSE [db |-> db, table |-> name, err |-> ErrNil]

\* ShardingDB.GetDefaultDB: the connection of index 0
GetDefaultDB(sm) == GetDBByIndex(sm, Zero)

\* What GetShardedDB returns for the results shardInfo of
\* CalculateShardForTable and got of GetDBForTable.
ShardedOf(shardInfo, got) ==
    IF IsPanic(shardInfo.err) THEN [db |-> 0, table |-> <<>>, err |-> shardInfo.err]
    ELSE IF shardInfo.err # ErrNil
    THEN [db |-> 0, table |-> <<>>, err |-> Wrap("failed to calculate shard", shardInfo.err)]
    ELSE IF IsPanic(got.err) THEN [db |-> 0, table |-> <<>>, err |-> got.err]
    ELSE IF got.err # ErrNil
    THEN [db |-> 0, table |-> <<>>, err |-> Wrap("failed to get DB", got.err)]
    ELSE Table(got.db, shardInfo.info.TableName)

\* GetShardedDB: the session on the routed connection, scoped to the sharded
\* table name.  orders holds the map iteration orders of the three algorithm
\* calls.
GetShardedDB(sm, tableName, shardingValue, orders) ==
    ShardedOf(CalculateShardForTable(sm, tableName, shardingValue, orders[1], orders[2]),
              GetDBForTable(sm, tableName, shardingValue, orders[3]))

\* A fallback that hands out the default database whatever GetDefaultDB said.
DefaultOfAlways(tableName, defaultDB) ==
    [db |-> defaultDB.db, table |-> tableName, err |-> ErrNil]

\* The fallback of MustGetShardedDB: the default database scoped to the
\* original table name, an empty handle when there is no default database.
DefaultOf(tableName, defaultDB) ==
    IF defaultDB.err # ErrNil THEN EmptyDB ELSE Table(defaultDB.db, tableName)

MustOf(sm, tableName, sharded) ==
    IF IsPanic(sharded.err) \/ sharded.err = PanicNilPointer THEN sharded
    ELSE IF sharded.err # ErrNil THEN DefaultOf(tableName, GetDefaultDB(sm))
    ELSE sharded

\* MustGetShardedDB: GetShardedDB, and its fallback when that returns an
\* error.  err is ErrNil unless the call panics.
MustGetShardedDB(sm, tableName, shardingValue, orders) ==
    MustOf(sm, tableName, GetShardedDB(sm, tableName, shardingValue, orders))

---------------------------------------------------------------------------
(* The inputs the operations are called with *)

MaxStrLen == 2

MaxKey == 5

MaxElems == 2

MaxShardCount == 4

MaxCalcCount == 2

Str(s) == [t |-> "string", s |-> s]

IntV(t, w) == [t |-> t, w |-> w]

\* '-', '1', 'a' and U+1F600 (a code point above the 16-bit plane)
Alphabet == {45, 49, 97, 128512}

MaxUint64 == <<Limb - 1, Limb - 1, Limb - 1, Limb - 1>>

\* "alice", "12345", "-7", "+7", " 7", "1_2", "2_1", the decimal text of
\* 2^63 - 1, 2^63, -2^63, -2^63 - 1 and 2^64 - 1
EdgeStrings ==
    { <<97, 108, 105, 99, 101>>, <<49, 50, 51, 52, 53>>, <<45, 55>>, <<43, 55>>,
      <<32, 55>>, <<49, 95, 50>>, <<50, 95, 49>>,
      FormatInt(MaxInt64), FormatUint(MinInt64), FormatInt(MinInt64),
      <<45>> \o FormatUint(WAdd(MinInt64, FromNat(1))), FormatUint(MaxUint64) }

StringValues ==
    {Str(s) : s \in UNION {[1..k -> Alphabet] : k \in 0..MaxStrLen} \cup EdgeStrings}

IntegerValues ==
    {IntV(t, FromInt(k)) : t \in {"int", "int64"}, k \in (-MaxKey)..MaxKey}
    \cup {IntV(t, FromInt(k)) : t \in {"int8", "int16", "int32"}, k \in {-7, 7}}
    \cup {IntV(t, FromNat(k)) : t \in {"uint", "uint64"}, k \in 0..MaxKey}
    \cup {IntV(t, FromNat(k)) : t \in {"uint8", "uint16", "uint32"}, k \in {7, 255}}
    \cup {IntV(t, w) : t \in {"int", "int64"},
                       w \in {FromNat(12345), FromInt(-7), FromNat(7), MaxInt64, MinInt64,
                              WAdd(MinInt64, FromNat(1))}}
    \cup {IntV(t, w) : t \in {"uint", "uint64"},
                       w \in {MaxInt64, MinInt64, MaxUint64, WSub(MaxUint64, FromNat(6))}}
    \cup {IntV("int32", <<0, 2^15, Limb - 1, Limb - 1>>), IntV("uint32", <<Limb - 1, Limb - 1, 0, 0>>)}

ScalarValues ==
    {Str(<<49>>), IntV("int", FromNat(2)), [t |-> "bool", b |-> TRUE], [t |-> "nil"]}

SeqsUpTo(S, n) == UNION {[1..k -> S] : k \in 0..n}

SliceValues ==
    {[t |-> "[]string", elems |-> e] : e \in SeqsUpTo({<<49>>, <<50>>, <<>>}, MaxElems)}
    \cup {[t |-> "[]interface {}", elems |-> e] : e \in SeqsUpTo(ScalarValues, MaxElems)}

\* the map keys "a", "b" and "ab"
MapKeys == {<<97>>, <<98>>, <<97, 98>>}

MapValues ==
    {[t |-> "map[string]interface {}", m |-> m] :
        m \in UNION {[K -> {Str(<<49>>), IntV("int", FromNat(2))}] :
                        K \in {K \in SUBSET MapKeys : Cardinality(K) <= MaxElems}}}

OtherValues == {[t |-> "bool", b |-> TRUE], [t |-> "bool", b |-> FALSE], [t |-> "nil"]}

Values == StringValues \cup IntegerValues \cup SliceValues \cup MapValues \cup OtherValues

\* The orders in which ranging over a map value can yield its keys.
Orders(v) ==
    IF v.t = "map[string]interface {}"
    THEN {o \in [1..Cardinality(DOMAIN v.m) -> DOMAIN v.m] :
            \A i, j \in DOMAIN o : i # j => o[i] # o[j]}
    ELSE {<<>>}

\* shardCount: 0..MaxShardCount, 2^31 - 1, 2^31, 2^32, 2^32 + 3, 2^63 - 1
ShardCounts ==
    {FromNat(n) : n \in 0..MaxShardCount}
    \cup {<<Limb - 1, 2^15 - 1, 0, 0>>, <<0, 2^15, 0, 0>>, <<0, 0, 1, 0>>, <<3, 0, 1, 0>>, MaxInt64}

CalcCounts == {FromNat(n) : n \in 0..MaxCalcCount} \cup {FromNat(4), <<0, 0, 1, 0>>}

\* Table names: "users", "orders"
TableNames == {<<117, 115, 101, 114, 115>>, <<111, 114, 100, 101, 114, 115>>}

\* Database name templates: "myapp_{db_index}", "", "{db_index}_{db_index}",
\* "{db_{db_index}"
DatabaseTemplates ==
    {<<109, 121, 97, 112, 112, 95, 123, 100, 98, 95, 105, 110, 100, 101, 120, 125>>,
     <<>>,
     <<123, 100, 98, 95, 105, 110, 100, 101, 120, 125, 95, 123, 100, 98, 95, 105, 110, 100, 101, 120, 125>>,
     <<123, 100, 98, 95, 123, 100, 98, 95, 105, 110, 100, 101, 120, 125>>}

\* The sharding values GetShardInfo is called with.
ShardInfoValues ==
    {IntV("int64", FromNat(12345)), IntV("int64", FromInt(-7)),
     Str(<<97, 108, 105, 99, 101>>), [t |-> "bool", b |-> TRUE],
     [t |-> "[]string", elems |-> <<>>],
     [t |-> "[]string", elems |-> <<<<49>>, <<50>>>>]}

AlgorithmTypes ==
    {AlgorithmTypeLong, AlgorithmTypeString, AlgorithmTypeMultiString, "", "Long", "hash"}

---------------------------------------------------------------------------
(* The state machine: one call of one operation per behaviour *)

\* No calculator yet; the manager as GetManager makes it: no config, an
\* empty list, not initialized.
\* The caller threads.
Threads == {1, 2}

Init ==
    /\ sc = Null
    /\ op = "none"
    /\ args = Null
    /\ ret = Null
    /\ config = Null
    /\ databases = <<>>
    /\ initialized = FALSE
    /\ opened = <<>>
    /\ closed = {}
    /\ lock = [writer |-> 0, readers |-> {}]
    /\ pc = [t \in Threads |-> "idle"]
    /\ local = [t \in Threads |-> Null]
    /\ calls = 0

CallLong ==
    /\ op = "none" /\ sc = Null
    /\ \E v \in Values, n \in ShardCounts :
          /\ op' = "Long"
          /\ args' = [shardingValue |-> v, shardCount |-> n, order |-> <<>>]
          /\ ret' = LongCalculateShardIndex(v, n)
    /\ UNCHANGED sc
    /\ UNCHANGED <<smVars, thVars>>

CallString ==
    /\ op = "none" /\ sc = Null
    /\ \E v \in Values, n \in ShardCounts :
          /\ op' = "String"
          /\ args' = [shardingValue |-> v, shardCount |-> n, order |-> <<>>]
          /\ ret' = StringCalculateShardIndex(v, n)
    /\ UNCHANGED sc
    /\ UNCHANGED <<smVars, thVars>>

CallMultiString ==
    /\ op = "none" /\ sc = Null
    /\ \E v \in Values, n \in ShardCounts :
          \E order \in Orders(v) :
              /\ op' = "MultiString"
              /\ args' = [shardingValue |-> v, shardCount |-> n, order |-> order]
              /\ ret' = MultiStringCalculateShardIndex(v, n, order)
    /\ UNCHANGED sc
    /\ UNCHANGED <<smVars, thVars>>

CallGetShardingAlgorithm ==
    /\ op = "none" /\ sc = Null
    /\ \E algorithmType \in AlgorithmTypes :
          /\ op' = "GetShardingAlgorithm"
          /\ args' = [algorithmType |-> algorithmType]
          /\ ret' = GetShardingAlgorithm(algorithmType)
    /\ UNCHANGED sc
    /\ UNCHANGED <<smVars, thVars>>

CallNewShardCalculator ==
    /\ op = "none" /\ sc = Null
    /\ \E algorithmType \in AlgorithmTypes, databaseCount \in CalcCounts,
          tableCountPerDB \in CalcCounts :
          LET new == NewShardCalculator(algorithmType, databaseCount, tableCountPerDB)
          IN  /\ op' = "NewShardCalculator"
              /\ args' = [algorithmType |-> algorithmType, databaseCount |-> databaseCount,
                          tableCountPerDB |-> tableCountPerDB]
              /\ sc' = new.sc
              /\ ret' = [err |-> new.err]
    /\ UNCHANGED <<smVars, thVars>>

CallCalculateShard ==
    /\ op = "NewShardCalculator" /\ sc # Null
    /\ \E v \in Values :
          \E orderDb \in Orders(v), orderTable \in Orders(v) :
              /\ op' = "CalculateShard"
              /\ args' = [shardingValue |-> v]
              /\ ret' = CalculateShard(sc, v, orderDb, orderTable)
    /\ UNCHANGED sc
    /\ UNCHANGED <<smVars, thVars>>

CallGetShardInfo ==
    /\ op = "NewShardCalculator" /\ sc # Null
    /\ \E originalTableName \in TableNames, databaseTemplate \in DatabaseTemplates,
          v \in ShardInfoValues :
          \E orders \in [1..6 -> Orders(v)] :
              /\ op' = "GetShardInfo"
              /\ args' = [originalTableName |-> originalTableName,
                          databaseTemplate |-> databaseTemplate,
                          shardingValue |-> v]
              /\ ret' = GetShardInfo(sc, originalTableName, databaseTemplate, v, orders)
    /\ UNCHANGED sc
    /\ UNCHANGED <<smVars, thVars>>

Next ==
    \/ CallLong
    \/ CallString
    \/ CallMultiString
    \/ CallGetShardingAlgorithm
    \/ CallNewShardCalculator
    \/ CallCalculateShard
    \/ CallGetShardInfo

Spec == Init /\ [][Next]_vars

---------------------------------------------------------------------------
(* The state machine of the manager: any sequence of calls on the global *)
(* ShardingManager, one call a step                                       *)

\* The most connections gorm.Open returns in one behaviour.
MaxOpened == 4

TableConfig(shardingKey, tableCount, algorithm) ==
    [ShardingKey |-> shardingKey, TableCount |-> tableCount, Algorithm |-> algorithm]

Users == <<117, 115, 101, 114, 115>>

Orders2 == <<111, 114, 100, 101, 114, 115>>

Logs == <<108, 111, 103, 115>>

UserId == <<117, 115, 101, 114, 95, 105, 100>>

ShardingConfig(databaseCount, database, tableConfigs) ==
    [DatabaseCount |-> databaseCount, Database |-> database, TableConfigs |-> tableConfigs]

\* Two valid configurations of different DatabaseCount, one with no database,
\* one with a negative count, one whose tables are invalid in the three ways
\* initDatabase checks.
Configs ==
    {ShardingConfig(2, <<109, 121, 97, 112, 112, 95, 123, 100, 98, 95, 105, 110, 100, 101, 120, 125>>,
        [t \in {Users, Orders2} |->
            IF t = Users THEN TableConfig(UserId, 4, "LongShardingAlgorithm")
            ELSE TableConfig(UserId, 2, "StringShardingAlgorithm")]),
     ShardingConfig(3, <<>>,
        [t \in {Users} |-> TableConfig(UserId, 2, "StringShardingAlgorithm")]),
     ShardingConfig(0, <<109, 121, 97, 112, 112, 95, 123, 100, 98, 95, 105, 110, 100, 101, 120, 125>>,
        [t \in {Users} |-> TableConfig(UserId, 4, "LongShardingAlgorithm")]),
     ShardingConfig(-1, <<109, 121, 97, 112, 112, 95, 123, 100, 98, 95, 105, 110, 100, 101, 120, 125>>,
        [t \in {Users} |-> TableConfig(UserId, 4, "LongShardingAlgorithm")]),
     ShardingConfig(1, <<115, 105, 110, 103, 108, 101>>,
        [t \in {Users, Orders2, Logs} |->
            IF t = Users THEN TableConfig(<<>>, 4, "LongShardingAlgorithm")
            ELSE IF t = Orders2 THEN TableConfig(UserId, 0, "LongShardingAlgorithm")
            ELSE TableConfig(UserId, 2, "nil")])}

\* The orders in which ranging over the TableConfigs of cfg can yield them.
TableOrders(cfg) ==
    {o \in [1..Cardinality(DOMAIN cfg.TableConfigs) -> DOMAIN cfg.TableConfigs] :
        \A i, j \in DOMAIN o : i # j => o[i] # o[j]}

\* The sharding values the manager is asked to route: 12345, 5, "alice"
ManagerKeys ==
    {IntV("int64", FromNat(12345)), IntV("int", FromNat(5)), Str(<<97, 108, 105, 99, 101>>)}

\* The table names it is asked about: two that configurations register, one
\* that none does.
ManagerTables == {Users, Orders2, <<103, 104, 111, 115, 116>>}

\* The manager as a record, for the operations above.
SM ==
    [config |-> config, databases |-> databases, initialized |-> initialized,
     opened |-> opened, closed |-> closed, err |-> ErrNil]

\* A lookup changes nothing of the manager, so whatever can follow it can
\* follow the state before it as well: a behaviour is a sequence of Init and
\* Close calls, ended by at most one lookup.
NoLookupYet == op \in {"none", "Init", "Close"}

\* What gorm.Open does during an Init of cfg: the first index at which it
\* fails, DatabaseCount when it fails at none.  An Init that opens nothing
\* (manager initialized, no database) leaves no choice.
FailAts(cfg) ==
    IF initialized \/ cfg.DatabaseCount <= 0 THEN {cfg.DatabaseCount}
    ELSE 0..cfg.DatabaseCount

\* The manager becomes after, the fields Init left behind.
InitReturns(after) ==
    /\ ret' = [err |-> after.err]
    /\ config' = after.config
    /\ databases' = after.databases
    /\ initialized' = after.initialized
    /\ opened' = after.opened

CallInit ==
    \E cfg \in Configs :
        /\ NoLookupYet
        /\ Len(opened) + (IF ~initialized /\ cfg.DatabaseCount > 0 THEN cfg.DatabaseCount ELSE 0)
              <= MaxOpened
        /\ \E failAt \in FailAts(cfg), order \in TableOrders(cfg) :
              /\ op' = "Init"
              /\ args' = [config |-> cfg, failAt |-> failAt]
              /\ InitReturns(ManagerInit(SM, cfg, failAt, order))
              /\ UNCHANGED <<sc, closed, thVars>>

\* The fields of the manager become those of after, what Close left behind.
CloseFields(after) ==
    /\ databases' = after.databases
    /\ initialized' = after.initialized
    /\ closed' = after.closed

CloseReturns(after) ==
    /\ ret' = [err |-> after.err]
    /\ CloseFields(after)

CallClose ==
    /\ NoLookupYet
    /\ op' = "Close"
    /\ args' = Null
    /\ CloseReturns(ManagerClose(SM))
    /\ UNCHANGED <<sc, config, opened, thVars>>

CallGetDB ==
    /\ NoLookupYet
    /\ \E v \in ManagerKeys :
          \E order \in Orders(v) :
              /\ op' = "GetDB"
              /\ args' = [shardingValue |-> v]
              /\ ret' = GetDB(SM, v, order)
    /\ UNCHANGED <<sc, smVars, thVars>>

CallGetDBForTable ==
    /\ NoLookupYet
    /\ \E tableName \in ManagerTables, v \in ManagerKeys :
          \E order \in Orders(v) :
              /\ op' = "GetDBForTable"
              /\ args' = [tableName |-> tableName, shardingValue |-> v]
              /\ ret' = GetDBForTable(SM, tableName, v, order)
    /\ UNCHANGED <<sc, smVars, thVars>>

CallGetDBByIndex ==
    /\ NoLookupYet
    /\ \E dbIndex \in -1..3 :
          /\ op' = "GetDBByIndex"
          /\ args' = [dbIndex |-> FromInt(dbIndex)]
          /\ ret' = GetDBByIndex(SM, FromInt(dbIndex))
    /\ UNCHANGED <<sc, smVars, thVars>>

CallGetAllDBs ==
    /\ NoLookupYet
    /\ op' = "GetAllDBs"
    /\ args' = Null
    /\ ret' = [dbs |-> GetAllDBs(SM)]
    /\ UNCHANGED <<sc, smVars, thVars>>

CallIsInitialized ==
    /\ NoLookupYet
    /\ op' = "IsInitialized"
    /\ args' = Null
    /\ ret' = [initialized |-> initialized]
    /\ UNCHANGED <<sc, smVars, thVars>>

CallGetConfig ==
    /\ NoLookupYet
    /\ op' = "GetConfig"
    /\ args' = Null
    /\ ret' = [config |-> config]
    /\ UNCHANGED <<sc, smVars, thVars>>

CallCalculateShardForTable ==
    /\ NoLookupYet
    /\ \E tableName \in ManagerTables, v \in ManagerKeys :
          \E orderDb \in Orders(v), orderTable \in Orders(v) :
              /\ op' = "CalculateShardForTable"
              /\ args' = [tableName |-> tableName, shardingValue |-> v]
              /\ ret' = CalculateShardForTable(SM, tableName, v, orderDb, orderTable)
    /\ UNCHANGED <<sc, smVars, thVars>>

CallMustGetShardedDB ==
    /\ NoLookupYet
    /\ \E tableName \in ManagerTables, v \in ManagerKeys :
          \E orders \in [1..3 -> Orders(v)] :
              /\ op' = "MustGetShardedDB"
              /\ args' = [tableName |-> tableName, shardingValue |-> v]
              /\ ret' = MustGetShardedDB(SM, tableName, v, orders)
    /\ UNCHANGED <<sc, smVars, thVars>>

NextManager ==
    \/ CallInit
    \/ CallClose
    \/ CallGetDB
    \/ CallGetDBForTable
    \/ CallGetDBByIndex
    \/ CallGetAllDBs
    \/ CallIsInitialized
    \/ CallGetConfig
    \/ CallCalculateShardForTable
    \/ CallMustGetShardedDB

SpecManager == Init /\ [][NextManager]_vars

---------------------------------------------------------------------------
(* The manager under concurrent callers: each thread runs one call after  *)
(* the other, a step being a stretch of manager.go that touches the       *)
(* shared fields or the lock once.  The reads and writes of the fields    *)
(* are taken in the order of the program (sequential consistency); an     *)
(* unsynchronized read yields the value before or after a racing write.   *)

\* The most calls the threads start in one behaviour.
MaxCalls == 3

\* The configurations the racing Init calls are given: the valid ones with
\* more than one database.
RacingConfigs == {cfg \in Configs : cfg.DatabaseCount >= 2}

\* The keys, table names and indices of the racing lookups.
RacingKeys == {IntV("int", FromNat(5))}

RacingTables == {Users}

RacingIndices == {0, 1}

\* sync.RWMutex: Lock waits for no writer and no reader, RLock for no writer.
Lock(t) ==
    /\ lock.writer = 0
    /\ lock.readers = {}
    /\ lock' = [lock EXCEPT !.writer = t]

Unlock(t) == lock' = [lock EXCEPT !.writer = 0]

RLock(t) ==
    /\ lock.writer = 0
    /\ lock' = [lock EXCEPT !.readers = @ \cup {t}]

RUnlock(t) == lock' = [lock EXCEPT !.readers = @ \ {t}]

\* Thread t enters a call; its first step leads to the line next.  The
\* variables of the one-call state machines stay as they are.
Enter(t, name, a, next) ==
    /\ pc[t] = "idle"
    /\ calls < MaxCalls
    /\ calls' = calls + 1
    /\ pc' = [pc EXCEPT ![t] = next]
    /\ local' = [local EXCEPT ![t] = [op |-> name, args |-> a, reg |-> Null, ret |-> Null]]
    /\ UNCHANGED <<sc, op, args, ret>>

\* Thread t enters a call that returns r in its first step.
EnterReturn(t, name, a, r) ==
    /\ pc[t] = "idle"
    /\ calls < MaxCalls
    /\ calls' = calls + 1
    /\ pc' = pc
    /\ local' = [local EXCEPT ![t] = [op |-> name, args |-> a, reg |-> Null, ret |-> r]]
    /\ UNCHANGED <<sc, op, args, ret>>

\* Thread t goes on to the line next with its local variables reg.
Goto(t, next, reg) ==
    /\ pc' = [pc EXCEPT ![t] = next]
    /\ local' = [local EXCEPT ![t].reg = reg]
    /\ calls' = calls
    /\ UNCHANGED <<sc, op, args, ret>>

\* Thread t returns r.
Return(t, r) ==
    /\ pc' = [pc EXCEPT ![t] = "idle"]
    /\ local' = [local EXCEPT ![t].ret = r]
    /\ calls' = calls
    /\ UNCHANGED <<sc, op, args, ret>>

\* manager.go:92  sm.config = config, before the lock is taken
Init92(t) ==
    \E cfg \in RacingConfigs :
        /\ Enter(t, "Init", [config |-> cfg], "Init93")
        /\ config' = cfg
        /\ UNCHANGED <<lock, databases, initialized, opened, closed>>

\* manager.go:93  sm.databasesLock.Lock()
Init93(t) ==
    /\ pc[t] = "Init93"
    /\ Lock(t)
    /\ Goto(t, "Init96", Null)
    /\ UNCHANGED smVars

\* manager.go:96-103  the look at sm.initialized and the make of the list,
\* under the write lock; the deferred Unlock runs on every way out.
Init96(t) ==
    /\ pc[t] = "Init96"
    /\ IF initialized
       THEN /\ Return(t, [err |-> ErrAlreadyInitialized])
            /\ Unlock(t)
            /\ UNCHANGED smVars
       ELSE IF local[t].args.config.DatabaseCount < 0
       THEN /\ Return(t, [err |-> PanicMakeslice])
            /\ Unlock(t)
            /\ UNCHANGED smVars
       ELSE /\ databases' = [k \in 1..local[t].args.config.DatabaseCount |-> 0]
            /\ Goto(t, "Init103", 0)
            /\ UNCHANGED <<lock, config, initialized, opened, closed>>

\* What a turn of the loop does with got, the result of initDatabase(i).
Init108(t, i, got) ==
    /\ opened' = IF got.conn = Null THEN opened ELSE Append(opened, got.conn)
    /\ IF got.err # ErrNil
       THEN /\ Return(t, [err |-> <<"failed to init database", ToString(i)>> \o got.err])
            /\ Unlock(t)
            /\ UNCHANGED databases
       ELSE /\ databases' = [databases EXCEPT ![i + 1] = Len(opened) + 1]
            /\ Goto(t, "Init103", i + 1)
            /\ UNCHANGED lock

\* manager.go:103-113  one turn of the loop of Init: i is compared with the
\* DatabaseCount of the configuration Init was given, while initDatabase
\* works with sm.config as it is now; after the last turn the flag is set.
Init103(t) ==
    /\ pc[t] = "Init103"
    /\ IF local[t].reg >= local[t].args.config.DatabaseCount
       THEN /\ initialized' = TRUE
            /\ Return(t, [err |-> ErrNil])
            /\ Unlock(t)
            /\ UNCHANGED <<config, databases, opened, closed>>
       ELSE /\ \E openOk \in BOOLEAN, order \in TableOrders(config) :
                  Init108(t, local[t].reg, initDatabase(config, local[t].reg, openOk, order))
            /\ UNCHANGED <<config, initialized, closed>>

\* manager.go:291  sm.databasesLock.Lock()
Close291(t) ==
    /\ Enter(t, "Close", Null, "Close294")
    /\ Lock(t)
    /\ UNCHANGED smVars

\* manager.go:294-305  the body of Close under the write lock
Close294(t) ==
    /\ pc[t] = "Close294"
    /\ CloseFields(ManagerClose(SM))
    /\ Return(t, [err |-> ErrNil])
    /\ Unlock(t)
    /\ UNCHANGED <<config, opened>>

\* manager.go:177  the look at sm.initialized, outside the lock
GetDB177(t) ==
    /\ \E v \in RacingKeys :
          IF initialized
          THEN Enter(t, "GetDB", [shardingValue |-> v], "GetDB183")
          ELSE EnterReturn(t, "GetDB", [shardingValue |-> v], [db |-> 0, err |-> ErrNotInitialized])
    /\ UNCHANGED <<lock, smVars>>

\* What a lookup does with got, the result of calculateDatabaseIndex.
Calculated(t, got, next) ==
    IF got.err # ErrNil
    THEN Return(t, [db |-> 0, err |-> got.err])
    ELSE Goto(t, next, got.idx)

\* manager.go:182-186  calculateDatabaseIndex reads sm.config, outside the lock
GetDB183(t) ==
    /\ pc[t] = "GetDB183"
    /\ \E order \in Orders(local[t].args.shardingValue) :
          Calculated(t, calculateDatabaseIndex(SM, local[t].args.shardingValue,
                                               "LongShardingAlgorithm", order), "GetDB188")
    /\ UNCHANGED <<lock, smVars>>

\* manager.go:188  sm.databasesLock.RLock()
GetDB188(t) ==
    /\ pc[t] = "GetDB188"
    /\ RLock(t)
    /\ Goto(t, "GetDB191", local[t].reg)
    /\ UNCHANGED smVars

\* manager.go:191-195  the bound check and the read of the list
GetDB191(t) ==
    /\ pc[t] = "GetDB191"
    /\ Return(t, DatabaseAt(SM, local[t].reg))
    /\ RUnlock(t)
    /\ UNCHANGED smVars

\* manager.go:201  the look at sm.initialized, outside the lock
GetDBForTable201(t) ==
    /\ \E tableName \in RacingTables, v \in RacingKeys :
          IF initialized
          THEN Enter(t, "GetDBForTable", [tableName |-> tableName, shardingValue |-> v],
                     "GetDBForTable206")
          ELSE EnterReturn(t, "GetDBForTable", [tableName |-> tableName, shardingValue |-> v],
                           [db |-> 0, err |-> ErrNotInitialized])
    /\ UNCHANGED <<lock, smVars>>

\* manager.go:206-209  the table config read from sm.config, outside the lock
GetDBForTable206(t) ==
    /\ pc[t] = "GetDBForTable206"
    /\ IF \/ local[t].args.tableName \notin DOMAIN config.TableConfigs
          \/ config.TableConfigs[local[t].args.tableName] = Null
       THEN Return(t, [db |-> 0, err |-> ErrTableConfigNotFound(local[t].args.tableName)])
       ELSE Goto(t, "GetDBForTable212", config.TableConfigs[local[t].args.tableName].Algorithm)
    /\ UNCHANGED <<lock, smVars>>

\* manager.go:212-215  calculateDatabaseIndex reads sm.config again
GetDBForTable212(t) ==
    /\ pc[t] = "GetDBForTable212"
    /\ \E order \in Orders(local[t].args.shardingValue) :
          Calculated(t, calculateDatabaseIndex(SM, local[t].args.shardingValue,
                                               local[t].reg, order), "GetDBForTable217")
    /\ UNCHANGED <<lock, smVars>>

\* manager.go:217  sm.databasesLock.RLock()
GetDBForTable217(t) ==
    /\ pc[t] = "GetDBForTable217"
    /\ RLock(t)
    /\ Goto(t, "GetDBForTable220", local[t].reg)
    /\ UNCHANGED smVars

\* manager.go:220-224  the bound check and the read of the list
GetDBForTable220(t) ==
    /\ pc[t] = "GetDBForTable220"
    /\ Return(t, DatabaseAt(SM, local[t].reg))
    /\ RUnlock(t)
    /\ UNCHANGED smVars

\* manager.go:229  the look at sm.initialized, outside the lock
GetDBByIndex229(t) ==
    /\ \E dbIndex \in RacingIndices :
          IF initialized
          THEN Enter(t, "GetDBByIndex", [dbIndex |-> FromInt(dbIndex)], "GetDBByIndex233")
          ELSE EnterReturn(t, "GetDBByIndex", [dbIndex |-> FromInt(dbIndex)],
                           [db |-> 0, err |-> ErrNotInitialized])
    /\ UNCHANGED <<lock, smVars>>

\* manager.go:233  sm.databasesLock.RLock()
GetDBByIndex233(t) ==
    /\ pc[t] = "GetDBByIndex233"
    /\ RLock(t)
    /\ Goto(t, "GetDBByIndex236", Null)
    /\ UNCHANGED smVars

\* manager.go:236-240  the bound check and the read of the list
GetDBByIndex236(t) ==
    /\ pc[t] = "GetDBByIndex236"
    /\ Return(t, DatabaseAt(SM, local[t].args.dbIndex))
    /\ RUnlock(t)
    /\ UNCHANGED smVars

\* manager.go:63  GetConfig takes the read lock
GetConfig63(t) ==
    /\ Enter(t, "GetConfig", Null, "GetConfig65")
    /\ RLock(t)
    /\ UNCHANGED smVars

\* manager.go:65  return sm.config
GetConfig65(t) ==
    /\ pc[t] = "GetConfig65"
    /\ Return(t, [config |-> config])
    /\ RUnlock(t)
    /\ UNCHANGED smVars

\* manager.go:70  IsInitialized takes the read lock
IsInitialized70(t) ==
    /\ Enter(t, "IsInitialized", Null, "IsInitialized72")
    /\ RLock(t)
    /\ UNCHANGED smVars

\* manager.go:72  return sm.initialized
IsInitialized72(t) ==
    /\ pc[t] = "IsInitialized72"
    /\ Return(t, [initialized |-> initialized])
    /\ RUnlock(t)
    /\ UNCHANGED smVars

\* manager.go:245  GetAllDBs takes the read lock
GetAllDBs245(t) ==
    /\ Enter(t, "GetAllDBs", Null, "GetAllDBs248")
    /\ RLock(t)
    /\ UNCHANGED smVars

\* manager.go:248-250  the copy of the list
GetAllDBs248(t) ==
    /\ pc[t] = "GetAllDBs248"
    /\ Return(t, [dbs |-> GetAllDBs(SM)])
    /\ RUnlock(t)
    /\ UNCHANGED smVars

StepInit(t) == Init92(t) \/ Init93(t) \/ Init96(t) \/ Init103(t)

StepClose(t) == Close291(t) \/ Close294(t)

StepGetDB(t) == GetDB177(t) \/ GetDB183(t) \/ GetDB188(t) \/ GetDB191(t)

StepGetDBForTable(t) ==
    \/ GetDBForTable201(t)
    \/ GetDBForTable206(t)
    \/ GetDBForTable212(t)
    \/ GetDBForTable217(t)
    \/ GetDBForTable220(t)

StepGetDBByIndex(t) == GetDBByIndex229(t) \/ GetDBByIndex233(t) \/ GetDBByIndex236(t)

StepRead(t) ==
    \/ GetConfig63(t)
    \/ GetConfig65(t)
    \/ IsInitialized70(t)
    \/ IsInitialized72(t)
    \/ GetAllDBs245(t)
    \/ GetAllDBs248(t)

NextConcurrent ==
    \E t \in Threads :
        \/ StepInit(t)
        \/ StepClose(t)
        \/ StepGetDB(t)
        \/ StepGetDBForTable(t)
        \/ StepGetDBByIndex(t)
        \/ StepRead(t)

SpecConcurrent == Init /\ [][NextConcurrent]_vars

---------------------------------------------------------------------------
(* The claims *)

\* shardCount > 0, as a Go int
Positive(n) == ~WIsNeg(n) /\ n # Zero

AlgorithmOps == {"Long", "String", "MultiString"}

\* The errors by which an algorithm rejects a sharding value.
RejectErrors == {ErrCannotConvert, ErrUnsupportedType, ErrEmptyColumnValues}

IsSlice(v) == v.t \in {"[]string", "[]interface {}"}

IsMap(v) == v.t = "map[string]interface {}"

\* C1: for each of the three algorithms, every sharding value the algorithm
\* accepts and every shardCount > 0, CalculateShardIndex returns an index i
\* with 0 <= i < shardCount.
C1_IndexInRange ==
    (/\ op \in AlgorithmOps
     /\ Positive(args.shardCount)
     /\ ret.err \notin RejectErrors)
    => (/\ ret.err = ErrNil
        /\ ~WIsNeg(ret.idx)
        /\ WLess(ret.idx, args.shardCount))

\* The magnitude |x| of an int64, as an unsigned Word.
Magnitude(x) == IF WIsNeg(x) THEN WNeg(x) ELSE x

\* C2: Long algorithm: for every signed 64-bit id and every shardCount > 0
\* the index is the absolute value of the truncated remainder of id by
\* shardCount (that is, |id| mod shardCount), so the index of -x is the index
\* of x whenever -x is representable; (-7, 4) yields 3, as (7, 4) does, and
\* not the Euclidean 1.
C2_LongSignNormalized ==
    (/\ op = "Long"
     /\ args.shardingValue.t \in {"int", "int32", "int64"}
     /\ Positive(args.shardCount))
    => LET x == args.shardingValue.w
           n == args.shardCount
       IN  /\ ret.err = ErrNil
           /\ ret.idx = URem(Magnitude(x), n)
           /\ x # MinInt64 => LongCalculateShardIndex(IntV("int64", WNeg(x)), n) = ret
           /\ (x \in {FromInt(-7), FromNat(7)} /\ n = FromNat(4)) => ret.idx = FromNat(3)

C2_Witness ==
    /\ op = "Long"
    /\ args.shardingValue = IntV("int64", FromInt(-7))
    /\ args.shardCount = FromNat(4)
    /\ ret = [idx |-> FromNat(3), err |-> ErrNil]

\* The UTF-16 code units of a code point: one above 0xFFFF is a surrogate
\* pair.
Utf16(c) ==
    IF c < Limb THEN <<c>>
    ELSE <<55296 + ((c - Limb) \div 1024), 56320 + ((c - Limb) % 1024)>>

\* Java's String.hashCode(): h = 31*h + unit over the UTF-16 code units, in
\* int arithmetic.
JavaStep(h, c) ==
    LET units == Utf16(c)
    IN  IF Len(units) = 1 THEN HashStep(h, units[1])
        ELSE HashStep(HashStep(h, units[1]), units[2])

RECURSIVE JavaFold(_, _, _)
JavaFold(s, i, h) ==
    IF i <= Len(s) /\ h \in Int THEN JavaFold(s, i + 1, JavaStep(h, s[i])) ELSE h

JavaHashCode(s) == JavaFold(s, 1, 0)

\* C3: String algorithm: for every string s and shardCount > 0 the index
\* is (h(s) & 0x7FFFFFFF) mod shardCount, where h(s) is the Java
\* String.hashCode() of s.  (Stated here for the shardCount that fit 31 bits.)
C3_StringIsJavaHashCode ==
    (/\ op = "String"
     /\ args.shardingValue.t = "string"
     /\ Positive(args.shardCount)
     /\ WLess(args.shardCount, <<0, 2^15, 0, 0>>))
    => (/\ ret.err = ErrNil
        /\ ret.idx = FromNat(MaskSign(JavaHashCode(args.shardingValue.s))
                             % ToInt32(args.shardCount)))

\* The values of a map in ascending order of their keys, stringified.
ValuesByKey(v) ==
    LET ks == KeysAscending(DOMAIN v.m)
    IN  [i \in 1..Len(ks) |-> FormatScalar(v.m[ks[i]])]

\* C4: MultiString algorithm: for a map the index depends only on the
\* (key, value) pairs and not on the iteration order (the values are joined
\* in ascending key order); for a sequence the values are joined in the
\* given order, so ["1","2"] is hashed as "1_2" and ["2","1"] as "2_1".
C4_MultiStringOrder ==
    op = "MultiString"
    => LET v == args.shardingValue
           n == args.shardCount
       IN  /\ (IsMap(v) /\ DOMAIN v.m # {})
                => /\ ret = HashModulo(stringHashCode(Join(ValuesByKey(v), <<95>>)), n)
                   /\ \A o \in Orders(v) : MultiStringCalculateShardIndex(v, n, o) = ret
           /\ (v.t = "[]string" /\ v.elems # <<>>)
                => ret = HashModulo(stringHashCode(Join(v.elems, <<95>>)), n)
           /\ (v.t = "[]string" /\ v.elems = << <<49>>, <<50>> >>)
                => ret = HashModulo(stringHashCode(<<49, 95, 50>>), n)
           /\ (v.t = "[]string" /\ v.elems = << <<50>>, <<49>> >>)
                => ret = HashModulo(stringHashCode(<<50, 95, 49>>), n)

\* A map of two keys, iterated in descending key order.
C4_Witness ==
    /\ op = "MultiString"
    /\ IsMap(args.shardingValue)
    /\ Len(args.order) = 2
    /\ StrLess(args.order[2], args.order[1])
    /\ args.shardingValue.m[args.order[1]] # args.shardingValue.m[args.order[2]]
    /\ Positive(args.shardCount)
    /\ ret.err = ErrNil

\* The value list of a sequence input, stringified.
ListOf(v) ==
    IF v.t = "[]string" THEN v.elems
    ELSE [i \in 1..Len(v.elems) |-> FormatScalar(v.elems[i])]

\* C5: MultiString algorithm: for every non-empty value list [v1..vk] and
\* shardCount > 0 the outcome is that of the String algorithm for the string
\* v1 + "_" + ... + "_" + vk with the same shardCount; for a single scalar it
\* is that of the String algorithm for the scalar.
C5_MultiStringIsStringOfJoin ==
    (op = "MultiString" /\ Positive(args.shardCount))
    => LET v == args.shardingValue
           n == args.shardCount
       IN  /\ (IsSlice(v) /\ v.elems # <<>>)
                => ret = StringCalculateShardIndex(Str(Join(ListOf(v), <<95>>)), n)
           /\ (~IsSlice(v) /\ ~IsMap(v)) => ret = StringCalculateShardIndex(v, n)

C5_Witness ==
    /\ op = "MultiString"
    /\ args.shardingValue.t = "[]interface {}"
    /\ Len(args.shardingValue.elems) = 2
    /\ args.shardCount = FromNat(3)
    /\ ret.err = ErrNil
    /\ ret.idx # Zero

\* The sharding values whose value list is empty.
EmptyInput(v) ==
    \/ IsSlice(v) /\ v.elems = <<>>
    \/ IsMap(v) /\ DOMAIN v.m = {}

\* C6: MultiString algorithm returns the EmptyShardingKey error, with index
\* 0, exactly when the value list is empty (an empty string sequence, an
\* empty value sequence or an empty map); a single scalar never produces it.
C6_EmptyShardingKey ==
    op = "MultiString"
    => /\ ret.err = ErrEmptyColumnValues <=> EmptyInput(args.shardingValue)
       /\ ret.err = ErrEmptyColumnValues => ret.idx = Zero
       /\ (~IsSlice(args.shardingValue) /\ ~IsMap(args.shardingValue))
            => ret.err # ErrEmptyColumnValues

C6_Witness ==
    /\ op = "MultiString"
    /\ IsMap(args.shardingValue)
    /\ DOMAIN args.shardingValue.m = {}
    /\ ret = [idx |-> Zero, err |-> ErrEmptyColumnValues]

\* C7: Long algorithm accepts a key of any signed or unsigned integer width
\* (8, 16, 32, 64 bit and native) and any string parseable as a base-10
\* 64-bit integer (the string "k" routing as the integer k), and returns an
\* UnsupportedValueType error for every other kind of value.
C7_LongAcceptsEveryInteger ==
    (op = "Long" /\ Positive(args.shardCount))
    => LET v == args.shardingValue
           n == args.shardCount
       IN  /\ v.t \in IntegerTypes => ret.err = ErrNil
           /\ (v.t = "string" /\ ParseInt(v.s).err = "nil")
                => ret = LongCalculateShardIndex(IntV("int64", ParseInt(v.s).n), n)
           /\ (v.t \notin IntegerTypes /\ v.t # "string") => ret.err = ErrUnsupportedType

\* C8: for every non-negative integer key, unsigned 64-bit keys above
\* 2^63 - 1 included, the Long algorithm's index is key mod shardCount.
C8_LongNonNegativeIsModulo ==
    (/\ op = "Long"
     /\ args.shardingValue.t \in IntegerTypes
     /\ args.shardingValue.t \in UnsignedTypes \/ ~WIsNeg(args.shardingValue.w)
     /\ Positive(args.shardCount)
     /\ ret.err = ErrNil)
    => ret.idx = URem(args.shardingValue.w, args.shardCount)

\* C9: GetShardingAlgorithm returns the Long, String or MultiString
\* algorithm for "long", "string", "multi_string" with no error, and no
\* algorithm with an UnknownAlgorithm error for every other kind.
C9_GetShardingAlgorithm ==
    op = "GetShardingAlgorithm"
    => /\ args.algorithmType = "long" => ret = [alg |-> "LongShardingAlgorithm", err |-> ErrNil]
       /\ args.algorithmType = "string" => ret = [alg |-> "StringShardingAlgorithm", err |-> ErrNil]
       /\ args.algorithmType = "multi_string"
            => ret = [alg |-> "MultiStringShardingAlgorithm", err |-> ErrNil]
       /\ args.algorithmType \notin {"long", "string", "multi_string"}
            => ret = [alg |-> "nil", err |-> ErrUnknownAlgorithm]

C9_Witness ==
    /\ op = "GetShardingAlgorithm"
    /\ args.algorithmType = ""
    /\ ret.err = ErrUnknownAlgorithm

\* C10: CalculateShard(value) returns dbIndex = algorithm(value,
\* databaseCount) and tableIndex = algorithm(value, tableCountPerDB), each
\* from the same value by the same algorithm; tableIndex does not depend on
\* dbIndex or databaseCount, nor dbIndex on tableCountPerDB.
C10_CalculateShardIndependent ==
    (op = "CalculateShard" /\ ret.err = ErrNil)
    => LET v == args.shardingValue
       IN  \A o \in Orders(v) :
              /\ ret.dbIndex = CalculateShardIndex(sc.algorithm, v, sc.databaseCount, o).idx
              /\ ret.tableIndex = CalculateShardIndex(sc.algorithm, v, sc.tableCountPerDB, o).idx
              /\ \A count \in CalcCounts :
                    LET otherDb == CalculateShard([sc EXCEPT !.databaseCount = count], v, o, o)
                        otherTable == CalculateShard([sc EXCEPT !.tableCountPerDB = count], v, o, o)
                    IN  /\ otherDb.err = ErrNil => otherDb.tableIndex = ret.tableIndex
                        /\ otherTable.err = ErrNil => otherTable.dbIndex = ret.dbIndex

C10_Witness ==
    /\ op = "CalculateShard"
    /\ ret.err = ErrNil
    /\ sc.databaseCount # sc.tableCountPerDB
    /\ ret.dbIndex # ret.tableIndex
    /\ ret.dbIndex # Zero


\* The template with every occurrence of the placeholder replaced by value,
\* in one pass from left to right: st is <<the offset reached, the output so
\* far>>.
RECURSIVE ReplaceAll(_, _, _)
ReplaceAll(template, value, st) ==
    IF st[1] >= Len(template) THEN st[2]
    ELSE ReplaceAll(template, value,
            IF /\ st[1] + Len(Placeholder) <= Len(template)
               /\ SubSeq(template, st[1] + 1, st[1] + Len(Placeholder)) = Placeholder
            THEN <<st[1] + Len(Placeholder), st[2] \o value>>
            ELSE <<st[1] + 1, Append(st[2], template[st[1] + 1])>>)

AnyOrder(v) == CHOOSE o \in Orders(v) : TRUE

\* C11: GetShardInfo(table, template, value) fails exactly as CalculateShard
\* does; otherwise its indices are those of CalculateShard, TableName is
\* table + "_" + TableIndex and DatabaseName is the template with every
\* "{db_index}" replaced by DatabaseIndex, no placeholder left over.  For
\* "users", "myapp_{db_index}", key 12345, 2 databases, 4 tables and the
\* Long algorithm: indices 1 and 1, "myapp_1", "users_1".
C11_GetShardInfo ==
    op = "GetShardInfo" =>
        LET v == args.shardingValue
            shard == CalculateShard(sc, v, AnyOrder(v), AnyOrder(v))
        IN  /\ ret.err = shard.err
            /\ ret.err # ErrNil => ret.info = Null
            /\ ret.err = ErrNil =>
                  /\ ret.info.DatabaseIndex = shard.dbIndex
                  /\ ret.info.TableIndex = shard.tableIndex
                  /\ ret.info.TableName
                       = args.originalTableName \o <<95>> \o FormatInt(ret.info.TableIndex)
                  /\ ret.info.DatabaseName
                       = ReplaceAll(args.databaseTemplate,
                                    FormatInt(ret.info.DatabaseIndex), <<0, <<>> >>)
                  /\ IndexOf(ret.info.DatabaseName, Placeholder) = -1
            /\ (/\ sc = [algorithm |-> "LongShardingAlgorithm",
                         databaseCount |-> FromNat(2), tableCountPerDB |-> FromNat(4)]
                /\ args = [originalTableName |-> <<117, 115, 101, 114, 115>>,
                           databaseTemplate |-> <<109, 121, 97, 112, 112, 95, 123, 100, 98, 95, 105, 110, 100, 101, 120, 125>>,
                           shardingValue |-> IntV("int64", FromNat(12345))])
               => ret = [info |-> [DatabaseIndex |-> FromNat(1), TableIndex |-> FromNat(1),
                                   DatabaseName |-> <<109, 121, 97, 112, 112, 95, 49>>,
                                   TableName |-> <<117, 115, 101, 114, 115, 95, 49>>],
                         err |-> ErrNil]

C11_Witness ==
    /\ op = "GetShardInfo"
    /\ ret.err = ErrNil
    /\ args.databaseTemplate = <<123, 100, 98, 95, 105, 110, 100, 101, 120, 125, 95, 123, 100, 98, 95, 105, 110, 100, 101, 120, 125>>
    /\ ret.info.DatabaseName = <<49, 95, 49>>
    /\ ret.info.TableName = <<111, 114, 100, 101, 114, 115, 95, 51>>

\* C12: Init on a manager that is already initialized returns the
\* AlreadyInitialized error and changes nothing: the active configuration,
\* the connection list and the initialized flag are after the call what
\* they were before it.
C12_InitTwiceChangesNothing ==
    [][(initialized /\ op' = "Init")
        => (/\ ret'.err = ErrAlreadyInitialized
            /\ config' = config
            /\ databases' = databases
            /\ initialized' = initialized)]_vars

\* The tables of cfg that fail a check of initDatabase.
InvalidTables(cfg) ==
    {t \in DOMAIN cfg.TableConfigs :
        \/ cfg.TableConfigs[t].ShardingKey = <<>>
        \/ cfg.TableConfigs[t].TableCount <= 0
        \/ cfg.TableConfigs[t].Algorithm = "nil"}

\* C13: Init validates every configured table before it opens a connection:
\* when some table config is invalid, Init (on a manager that is not
\* initialized) returns an error that names an invalid table, and no
\* connection has been opened.
C13_ValidateBeforeOpen ==
    [][(~initialized /\ op' = "Init" /\ InvalidTables(args'.config) # {})
        => (/\ ret'.err # ErrNil
            /\ \E t \in InvalidTables(args'.config) : ret'.err[Len(ret'.err)] = ToString(t)
            /\ opened' = opened)]_vars

\* What a successful Init of a manager that was not initialized has done:
\* exactly DatabaseCount connections opened, for the indices 0, 1, ... in
\* this order, the one for index i stored at position i of the list, the
\* flag set.
InitOpenedAll ==
    LET n == args'.config.DatabaseCount
        before == Len(opened)
    IN  /\ Len(opened') = before + n
        /\ SubSeq(opened', 1, before) = opened
        /\ \A i \in 0..(n - 1) : opened'[before + i + 1].dbIndex = i
        /\ Len(databases') = n
        /\ \A i \in 0..(n - 1) : databases'[i + 1] = before + i + 1
        /\ initialized'

\* C14 as stated: a successful Init on a manager that is not initialized
\* opens exactly DatabaseCount connections, in ascending order of index,
\* stores the one for index i at position i and sets the flag; no connection
\* is opened at any other time.
C14_OnlySuccessfulInitOpens ==
    [][/\ (~initialized /\ op' = "Init" /\ ret'.err = ErrNil) => InitOpenedAll
       /\ opened' # opened => (~initialized /\ op' = "Init" /\ ret'.err = ErrNil)]_vars

\* C14, amended: a successful Init on a manager that is not initialized
\* opens exactly DatabaseCount connections, in ascending order of index,
\* stores the one for index i at position i and sets the flag; no operation
\* but Init opens a connection, and an Init that fails has opened those of
\* the indices before the failure.
C14_InitOpensEagerly ==
    [][/\ (~initialized /\ op' = "Init" /\ ret'.err = ErrNil) => InitOpenedAll
       /\ opened' # opened => (~initialized /\ op' = "Init")]_vars

C14_Witness ==
    /\ op = "Init"
    /\ ret.err = ErrNil
    /\ initialized
    /\ Len(opened) = 4
    /\ databases = <<3, 4>>

\* C15: when opening the connection for some index k fails during Init (on
\* a manager that is not initialized), Init returns the error, opens no
\* connection for an index above k, opens none twice (no retry), and the
\* manager stays uninitialized.
C15_OpenFailureIsFinal ==
    [][(~initialized /\ op' = "Init" /\ args'.failAt < args'.config.DatabaseCount)
        => LET new == SubSeq(opened', Len(opened) + 1, Len(opened'))
           IN  /\ SubSeq(opened', 1, Len(opened)) = opened
               /\ ret'.err # ErrNil
               /\ ret'.err[2] = ToString(args'.failAt)
               /\ \A i \in DOMAIN new : new[i].dbIndex < args'.failAt
               /\ \A i, j \in DOMAIN new : i # j => new[i].dbIndex # new[j].dbIndex
               /\ ~initialized'
               /\ ret'.err # ErrAlreadyInitialized]_vars

C15_Witness ==
    /\ op = "Init"
    /\ args.failAt = 1
    /\ args.config.DatabaseCount = 3
    /\ Len(opened) = 1
    /\ databases = <<1, 0, 0>>
    /\ ~initialized

\* C16: on an initialized manager, GetDBForTable of a table name that has no
\* table config returns the TableConfigNotFound error and no connection,
\* opens no connection and leaves the configuration, the connection list
\* and the initialized flag as they were.
C16_UnknownTable ==
    [][(/\ initialized
        /\ op' = "GetDBForTable"
        /\ args'.tableName \notin DOMAIN config.TableConfigs)
        => (/\ ret' = [db |-> 0, err |-> ErrTableConfigNotFound(args'.tableName)]
            /\ UNCHANGED smVars)]_vars

C16_Witness ==
    /\ initialized
    /\ op = "GetDBForTable"
    /\ args.tableName \notin DOMAIN config.TableConfigs
    /\ Len(databases) = 2
    /\ ret.err = ErrTableConfigNotFound(args.tableName)

\* Whether an algorithm accepts a sharding value (whatever the shard count).
Accepts(alg, v) == CalculateShardIndex(alg, v, FromNat(1), AnyOrder(v)).err = ErrNil

\* A lookup returned the connection at position idx of the list.
ReturnsConnectionAt(idx) ==
    /\ ret.err = ErrNil
    /\ ~WIsNeg(idx)
    /\ WLess(idx, FromNat(Len(databases)))
    /\ ret.db = databases[idx[1] + 1]

\* C17: on an initialized manager, for a registered table T and a key the
\* algorithm of T accepts, GetDBForTable(T, key) returns the connection at
\* position algorithm_T(key, databaseCount) of the connection list.
C17_GetDBForTableRoutes ==
    (/\ op = "GetDBForTable"
     /\ initialized
     /\ args.tableName \in DOMAIN config.TableConfigs
     /\ Accepts(config.TableConfigs[args.tableName].Algorithm, args.shardingValue))
    => LET v == args.shardingValue
           index == CalculateShardIndex(config.TableConfigs[args.tableName].Algorithm, v,
                                        FromInt(config.DatabaseCount), AnyOrder(v))
       IN  index.err = ErrNil /\ ReturnsConnectionAt(index.idx)

\* C18: on an initialized manager GetDB(key) returns the connection at
\* index Long(key, databaseCount), whatever the algorithms of the tables;
\* for a key the Long algorithm rejects it returns the error of the Long
\* algorithm and no connection.
C18_GetDBIsLong ==
    (op = "GetDB" /\ initialized)
    => LET v == args.shardingValue
           index == LongCalculateShardIndex(v, FromInt(config.DatabaseCount))
       IN  IF Accepts("LongShardingAlgorithm", v)
           THEN index.err = ErrNil /\ ReturnsConnectionAt(index.idx)
           ELSE ret = [db |-> 0, err |-> LongCalculateShardIndex(v, FromNat(1)).err]

\* C19: while the manager is not initialized (never initialized, after a
\* failed Init, after Close), GetDB, GetDBForTable, GetDBByIndex and
\* CalculateShardForTable each return the NotInitialized error and no
\* connection or shard info, whatever the arguments.
C19_NotInitialized ==
    ~initialized =>
        /\ op \in {"GetDB", "GetDBForTable", "GetDBByIndex"}
              => ret = [db |-> 0, err |-> ErrNotInitialized]
        /\ op = "CalculateShardForTable" => ret = [info |-> Null, err |-> ErrNotInitialized]

C19_Witness ==
    /\ ~initialized
    /\ op = "GetDBByIndex"
    /\ args.dbIndex = FromNat(1)
    /\ Len(databases) = 2
    /\ closed # {}
    /\ ret.err = ErrNotInitialized

\* C20: Close always returns no error; after it every connection the manager
\* held has been closed, no entry of the list holds a connection and the
\* manager is not initialized; a Close after a Close leaves the manager as
\* it is.
C20_Close ==
    [][op' = "Close"
        => (/\ ret'.err = ErrNil
            /\ \A i \in DOMAIN databases : databases[i] # 0 => databases[i] \in closed'
            /\ \A i \in DOMAIN databases' : databases'[i] = 0
            /\ closed \subseteq closed'
            /\ ~initialized'
            /\ op = "Close" => UNCHANGED smVars)]_vars

C20_Witness ==
    /\ op = "Close"
    /\ databases = <<0, 0>>
    /\ closed = {1, 2, 3, 4}
    /\ ~initialized

LookupOps == {"GetDB", "GetDBForTable", "GetDBByIndex"}

\* A configuration Init has nothing to object to: at least one database and
\* every table config complete.
ValidConfig(cfg) == cfg.DatabaseCount >= 1 /\ InvalidTables(cfg) = {}

\* C21: over any sequence of Init and Close calls the initialized flag
\* becomes true only by an Init that started on a manager that was not
\* initialized and opened every connection, and becomes false only by Close;
\* an Init with a valid configuration that follows a Close (gorm.Open failing
\* nowhere) succeeds, with a list of connections it opened itself; and a
\* lookup that returns a connection returns one of the list that has not been
\* closed.
C21_Lifecycle ==
    [][/\ (~initialized /\ initialized')
            => (op' = "Init" /\ ret'.err = ErrNil /\ InitOpenedAll)
       /\ (initialized /\ ~initialized') => op' = "Close"
       /\ (/\ op = "Close"
           /\ op' = "Init"
           /\ ValidConfig(args'.config)
           /\ args'.failAt = args'.config.DatabaseCount)
            => (ret'.err = ErrNil /\ InitOpenedAll)
       /\ (op' \in LookupOps /\ ret'.err = ErrNil)
            => (ret'.db \in Held(SM) /\ ret'.db \notin closed)]_vars

C21_Witness ==
    /\ op = "GetDBForTable"
    /\ initialized
    /\ closed = {1, 2}
    /\ databases = <<3, 4>>
    /\ ret.err = ErrNil
    /\ ret.db \in {3, 4}

C25_IndexAgrees ==
    (/\ op = "GetDBForTable"
     /\ initialized
     /\ args.tableName \in DOMAIN config.TableConfigs)
    => LET v == args.shardingValue
           shard == CalculateShardForTable(SM, args.tableName, v, AnyOrder(v), AnyOrder(v))
       IN  IF ret.err # ErrNil THEN shard.err # ErrNil
           ELSE shard.err = ErrNil /\ ReturnsConnectionAt(shard.info.DatabaseIndex)

\* C26: in every state in which the manager is initialized the active
\* configuration has DatabaseCount >= 1, the connection list is not empty
\* and no lookup has divided by zero.
C26_DatabaseCountPositive ==
    initialized
    => /\ config.DatabaseCount >= 1
       /\ Len(databases) >= 1
       /\ op \in LookupOps => ret.err # PanicDivideByZero

\* C27: whenever the manager is initialized the connection list is as long
\* as the DatabaseCount of the active configuration, and GetDBForTable of a
\* registered table and a key its algorithm accepts does not return the
\* InvalidDatabaseIndex error.
C27_ListLengthIsCount ==
    initialized
    => /\ Len(databases) = config.DatabaseCount
       /\ (/\ op = "GetDBForTable"
           /\ args.tableName \in DOMAIN config.TableConfigs
           /\ Accepts(config.TableConfigs[args.tableName].Algorithm, args.shardingValue))
          => (ret.err = ErrNil \/ ret.err[1] # "invalid database index")

\* The connection list is the one an Init of the active configuration
\* opened: as long as its DatabaseCount, every entry a connection to the
\* database name initDatabase builds from it.
OpenedFromConfig ==
    /\ Len(databases) = config.DatabaseCount
    /\ \A i \in DOMAIN databases :
          /\ databases[i] # 0
          /\ opened[databases[i]].dbName = InitDatabaseName(config, i - 1)

\* C30: for a configuration Init accepted, a registered table and a key, the
\* DatabaseName that CalculateShardForTable reports is the database name Init
\* used when it opened the connection at the reported DatabaseIndex.
C30_DatabaseNameAgrees ==
    (/\ op = "CalculateShardForTable"
     /\ initialized
     /\ OpenedFromConfig
     /\ ret.err = ErrNil)
    => /\ WLess(ret.info.DatabaseIndex, FromNat(Len(databases)))
       /\ ret.info.DatabaseName
             = opened[databases[ret.info.DatabaseIndex[1] + 1]].dbName

\* The lines at which a lookup is after its first and before its last step.
LookupLines ==
    {"GetDB183", "GetDB188", "GetDB191",
     "GetDBForTable206", "GetDBForTable212", "GetDBForTable217", "GetDBForTable220",
     "GetDBByIndex233", "GetDBByIndex236"}

\* The lines at which an Init or a Close is after its first and before its
\* last step.
InitCloseLines == {"Init93", "Init96", "Init103", "Close294"}

\* The line a call starts with.
FirstLine(name) ==
    CASE name = "Init" -> "Init92"
      [] name = "Close" -> "Close291"
      [] name = "GetDB" -> "GetDB177"
      [] name = "GetDBForTable" -> "GetDBForTable201"
      [] name = "GetDBByIndex" -> "GetDBByIndex229"
      [] name = "GetConfig" -> "GetConfig63"
      [] name = "IsInitialized" -> "IsInitialized70"
      [] name = "GetAllDBs" -> "GetAllDBs245"

\* Thread t takes this step, and the line it runs in it.
Moves(t) == pc'[t] # pc[t] \/ local'[t] # local[t]

Line(t) == IF pc[t] # "idle" THEN pc[t] ELSE FirstLine(local'[t].op)

\* The fields of the manager the step at a line reads, and those it writes.
Reads(line) ==
    CASE line \in {"GetDB177", "GetDBForTable201", "GetDBByIndex229", "IsInitialized72", "Init96"}
            -> {"initialized"}
      [] line \in {"GetDB183", "GetDBForTable206", "GetDBForTable212", "GetConfig65", "Init103"}
            -> {"config"}
      [] line \in {"GetDB191", "GetDBForTable220", "GetDBByIndex236", "GetAllDBs248", "Close294"}
            -> {"databases"}
      [] OTHER -> {}

Writes(line) ==
    CASE line = "Init92" -> {"config"}
      [] line = "Init96" -> {"databases"}
      [] line = "Init103" -> {"databases", "initialized"}
      [] line = "Close294" -> {"databases", "initialized"}
      [] OTHER -> {}

\* C22: every read of the config pointer, the connection list or the
\* initialized flag happens while the thread holds the lock (as reader or
\* writer), every write of them while it holds the write lock, and none of
\* the three changes in a step of a thread that does not hold the write lock.
C22_AccessUnderLock ==
    [][/\ \A t \in Threads :
            Moves(t) =>
                /\ Reads(Line(t)) # {} => (lock.writer = t \/ t \in lock.readers)
                /\ Writes(Line(t)) # {} => lock.writer = t
       /\ <<config, databases, initialized>>' # <<config, databases, initialized>>
            => \E t \in Threads : Moves(t) /\ lock.writer = t]_vars

\* C23: an Init or a Close is mutually exclusive with every lookup and with
\* every other Init or Close: while a thread is between the first and the
\* last step of a GetDB, GetDBForTable or GetDBByIndex call no other thread
\* takes a step of an Init or a Close, and while a thread is between the
\* first and the last step of an Init or a Close no other thread takes a step
\* of an Init, a Close or a lookup.
C23_WritersExclusive ==
    [][\A t, u \in Threads :
          (t # u /\ Moves(u))
          => /\ pc[t] \in LookupLines => local'[u].op \notin {"Init", "Close"}
             /\ pc[t] \in InitCloseLines
                   => local'[u].op \notin {"Init", "Close"} \cup LookupOps]_vars

\* C28: under every interleaving with a concurrent Close, a GetDB,
\* GetDBForTable or GetDBByIndex that returns no error returns a connection
\* that is not nil and has not been closed.
C28_NoNilConnection ==
    [][\A t \in Threads :
          (/\ Moves(t)
           /\ pc'[t] = "idle"
           /\ local'[t].op \in LookupOps
           /\ local'[t].ret.err = ErrNil)
          => (local'[t].ret.db # 0 /\ local'[t].ret.db \notin closed')]_vars

\* gorm.Open failed during the Init that returned err.
OpenFailed(err) == \E i \in DOMAIN err : err[i] = "failed to connect database"

\* Thread w has won the race of the two Init calls against thread l.
InitWonBy(w, l) ==
    /\ local[w].ret.err = ErrNil
    /\ local[l].ret.err = ErrAlreadyInitialized
    /\ config = local[w].args.config
    /\ Len(databases) = local[w].args.config.DatabaseCount
    /\ \A i \in DOMAIN databases :
          /\ databases[i] # 0
          /\ opened[databases[i]].dbName = InitDatabaseName(local[w].args.config, i - 1)

\* C29: when two Init calls with different configurations race on a manager
\* that is not initialized (gorm.Open failing nowhere), one succeeds and the
\* other returns AlreadyInitialized, and afterwards the active configuration
\* is that of the call that succeeded and every connection of the list was
\* opened from it.
C29_RacingInit ==
    (/\ calls = 2
     /\ \A t \in Threads : pc[t] = "idle" /\ local[t] # Null
     /\ \A t \in Threads : local[t].op = "Init" /\ ~OpenFailed(local[t].ret.err)
     /\ local[1].args.config # local[2].args.config)
    => (InitWonBy(1, 2) \/ InitWonBy(2, 1))

=============================================================================
